---- MODULE Spec2Model ----
(***************************************************************************)
(* Model of github.com/jimschubert/ordered-map: an OrderedMap keeps a Go   *)
(* map from keys to *KeyValuePair (items) and a doubly linked list of the  *)
(* same pairs (order).  The heap is explicit: pairs and list elements are  *)
(* objects with addresses, so that aliasing between the index, the list    *)
(* and the back-reference KeyValuePair.element is part of the state.       *)
(***************************************************************************)
EXTENDS Integers, Sequences, FiniteSets, TLC

\* ---- bounds of the model ------------------------------------------------
NumKeys == 3
NumVals == 2
\* Iterators a caller creates, and Next calls it makes on each.
MaxIters == 2
MaxNext == 5
NumGoroutines == 2
\* Set calls of one goroutine.
MaxCalls == 2
\* Longest string given to myers.Diff.
MaxLen == 3
Goroutines == 1..NumGoroutines

KeySet == 1..NumKeys
ValSet == 1..NumVals

\* ---- addresses ----------------------------------------------------------
\* The nil pointer.
NIL == 0
\* Address of OrderedMap.order, which is also the address of its sentinel
\* element (the list's root).
ROOT == 1

VARIABLES
    items,   \* OrderedMap.items: key -> address of its KeyValuePair
    order,   \* OrderedMap.order: [len, elem], elem is the heap of list elements
    pairs,   \* heap of KeyValuePair objects: address -> [Key, Value, element]
    call,    \* the public operation called last, with its arguments
    ret,     \* what that call returned
    pre,     \* what a caller could see of the map before that call
    latest,  \* key -> the value most recently stored for it since it was last absent
    removed, \* keys removed by Remove and not added again since
    iters,   \* the Iterators the caller has created, each [pos]
    seen,    \* for each of them, what its Next calls returned so far
    arrays,  \* heap of the key slices Keys() returned: address -> keys
    held,    \* address of the slice the caller kept from an earlier Keys(), or nil
    heldWas, \* the keys of the map, in order, when that slice was returned
    other,   \* a second OrderedMap of the caller: [items, order, pairs]
    eqargs,  \* the pointers x and y given to the last Equal call
    reworked, \* whether a call other than Set has changed the map being compared
    born,    \* for each Iterator, the number of keys of the map when it was created
    diff,    \* the last myers.Diff call: its arguments and what it returned
    procs,   \* goroutine -> where it stands in its Set call, with its locals
    lock,    \* the goroutine holding the callers' mutex, or nil
    locking  \* whether the callers guard the map with that mutex

\* What the caller keeps of the results of Iterator() and Keys().
kept == <<iters, seen, arrays, held, heldWas, born>>

\* What Equal is given to compare the map with.
compared == <<other, eqargs, reworked>>

\* What belongs to callers of myers.Diff and to concurrent callers of Set.
elsewhere == <<diff, procs, lock, locking>>

vars == <<items, order, pairs, call, ret, pre, latest, removed, kept, compared, elsewhere>>

\* ---- internal/list ------------------------------------------------------
\* The sequence primitive: a generic doubly linked list with the API of
\* container/list, a ring closed by the root element.
\* list.Element: next, prev, list (owning list or nil), Value.
NewElement(v) == [next |-> NIL, prev |-> NIL, list |-> NIL, Value |-> v]

\* List.Init: the root points to itself and the length is zero; elements
\* that were in the list are not touched.
ListInit(l) ==
    [len |-> 0,
     elem |-> [l.elem EXCEPT ![ROOT].next = ROOT, ![ROOT].prev = ROOT]]

\* list.New
ListNew == ListInit([len |-> 0, elem |-> (ROOT :> NewElement(NIL))])

ListLen(l) == l.len

ListFront(l) == IF l.len = 0 THEN NIL ELSE l.elem[ROOT].next

ListBack(l) == IF l.len = 0 THEN NIL ELSE l.elem[ROOT].prev

\* Element.Next: the next list element, or nil at the end of the list or
\* for an element that is in no list.
ElementNext(l, e) ==
    LET p == l.elem[e].next
    IN  IF l.elem[e].list # NIL /\ p # ROOT THEN p ELSE NIL

\* List.insert: link the element at address e after at.
ListInsert(l, e, at) ==
    LET h1 == [l.elem EXCEPT ![e].prev = at]
        h2 == [h1 EXCEPT ![e].next = h1[at].next]
        h3 == [h2 EXCEPT ![h2[e].prev].next = e]
        h4 == [h3 EXCEPT ![h3[e].next].prev = e]
        h5 == [h4 EXCEPT ![e].list = ROOT]
    IN  [len |-> l.len + 1, elem |-> h5]

\* List.PushBack: a new element holding v, at address e, after the last one.
ListPushBack(l, e, v) ==
    ListInsert([l EXCEPT !.elem = l.elem @@ (e :> NewElement(v))],
               e, l.elem[ROOT].prev)

\* List.remove: unlink e and clear its pointers.
ListUnlink(l, e) ==
    LET h1 == [l.elem EXCEPT ![l.elem[e].prev].next = l.elem[e].next]
        h2 == [h1 EXCEPT ![h1[e].next].prev = h1[e].prev]
        h3 == [h2 EXCEPT ![e].next = NIL, ![e].prev = NIL, ![e].list = NIL]
    IN  [len |-> l.len - 1, elem |-> h3]

\* List.Remove: only an element of this list is unlinked.
ListRemove(l, e) == IF l.elem[e].list = ROOT THEN ListUnlink(l, e) ELSE l

\* List.move: unlink e and link it again after at.
ListMove(l, e, at) ==
    IF e = at THEN l
    ELSE LET h1 == [l.elem EXCEPT ![l.elem[e].prev].next = l.elem[e].next]
             h2 == [h1 EXCEPT ![h1[e].next].prev = h1[e].prev]
             h3 == [h2 EXCEPT ![e].prev = at]
             h4 == [h3 EXCEPT ![e].next = h3[at].next]
             h5 == [h4 EXCEPT ![h4[e].prev].next = e]
             h6 == [h5 EXCEPT ![h5[e].next].prev = e]
         IN  [l EXCEPT !.elem = h6]

ListMoveToFront(l, e) ==
    IF l.elem[e].list # ROOT \/ l.elem[ROOT].next = e THEN l
    ELSE ListMove(l, e, ROOT)

ListMoveToBack(l, e) ==
    IF l.elem[e].list # ROOT \/ l.elem[ROOT].prev = e THEN l
    ELSE ListMove(l, e, l.elem[ROOT].prev)

ListMoveBefore(l, e, mark) ==
    IF l.elem[e].list # ROOT \/ e = mark \/ l.elem[mark].list # ROOT THEN l
    ELSE ListMove(l, e, l.elem[mark].prev)

ListMoveAfter(l, e, mark) ==
    IF l.elem[e].list # ROOT \/ e = mark \/ l.elem[mark].list # ROOT THEN l
    ELSE ListMove(l, e, mark)

\* ---- errors -------------------------------------------------------------
NoError == [kind |-> "nil", key |-> NIL, value |-> NIL]

keyNotFound(key) == [kind |-> "KeyNotFound", key |-> key, value |-> NIL]

duplicateValue(key, value) ==
    [kind |-> "DuplicateKeyValue", key |-> key, value |-> value]

\* ---- OrderedMap ---------------------------------------------------------
\* An OrderedMap value o is [items, order, pairs]; every method is an
\* operator from o (and its arguments) to [o |-> the map afterwards, plus
\* the fields of the result the method returns].

\* KeyValuePair{Key, Value} with element not yet set.
KeyValuePair(key, value) == [Key |-> key, Value |-> value, element |-> NIL]

\* Init that empties the list but keeps the index (no o.items = make(...)).
InitKeepsItems(o) ==
    [o |-> [o EXCEPT !.order = ListInit(o.order)]]

\* OrderedMap.Init
Init(o) ==
    [o |-> [o EXCEPT !.items = <<>>, !.order = ListInit(o.order)]]

\* New
New == Init([items |-> <<>>, order |-> ListNew, pairs |-> <<>>]).o

\* Address of a newly allocated KeyValuePair for key: any address that is
\* not in use will do, and the one numbered like the key is taken when free.
NewPair(o, key) ==
    IF key \notin DOMAIN o.pairs THEN key
    ELSE 1 + CHOOSE a \in DOMAIN o.pairs \cup {NumKeys} :
                \A b \in DOMAIN o.pairs \cup {NumKeys} : b <= a

\* Address of the list element PushBack allocates for the pair at p.
NewElem(o, p) ==
    IF ROOT + p \notin DOMAIN o.order.elem THEN ROOT + p
    ELSE 1 + CHOOSE a \in DOMAIN o.order.elem :
                \A b \in DOMAIN o.order.elem : b <= a

\* insertKeyValuePair that forgets the index (no o.items[key] = &pair).
insertKeyValuePairNoIndex(o, key, value) ==
    LET p  == NewPair(o, key)
        e  == NewElem(o, p)
        o1 == [o EXCEPT !.pairs = o.pairs @@ (p :> KeyValuePair(key, value))]
        o2 == [o1 EXCEPT !.order = ListPushBack(o1.order, e, p)]
        o4 == [o2 EXCEPT !.pairs[p].element = e]
    IN  [o |-> o4, pair |-> p]

\* insertKeyValuePair that forgets the back-reference (no pair.element = element).
insertKeyValuePairNoElement(o, key, value) ==
    LET p  == NewPair(o, key)
        e  == NewElem(o, p)
        o1 == [o EXCEPT !.pairs = o.pairs @@ (p :> KeyValuePair(key, value))]
        o2 == [o1 EXCEPT !.order = ListPushBack(o1.order, e, p)]
        o3 == [o2 EXCEPT !.items = (key :> p) @@ o2.items]
    IN  [o |-> o3, pair |-> p]

\* OrderedMap.insertKeyValuePair
insertKeyValuePair(o, key, value) ==
    LET p  == NewPair(o, key)
        e  == NewElem(o, p)
        o1 == [o EXCEPT !.pairs = o.pairs @@ (p :> KeyValuePair(key, value))]
        o2 == [o1 EXCEPT !.order = ListPushBack(o1.order, e, p)]
        o3 == [o2 EXCEPT !.items = (key :> p) @@ o2.items]
        o4 == [o3 EXCEPT !.pairs[p].element = e]
    IN  [o |-> o4, pair |-> p]

\* Set that puts a new key at the front of the order.
SetPushFront(o, key, value) ==
    IF key \in DOMAIN o.items
    THEN [o |-> [o EXCEPT !.pairs[o.items[key]].Value = value]]
    ELSE LET n == insertKeyValuePair(o, key, value)
         IN  [o |-> [n.o EXCEPT !.order =
                        ListMoveToFront(n.o.order, n.o.pairs[n.pair].element)]]

\* Set that moves an updated key to the back of the order.
SetMoveToBack(o, key, value) ==
    IF key \in DOMAIN o.items
    THEN [o |-> [o EXCEPT !.pairs[o.items[key]].Value = value,
                          !.order = ListMoveToBack(o.order,
                                        o.pairs[o.items[key]].element)]]
    ELSE [o |-> insertKeyValuePair(o, key, value).o]

\* Set that leaves the value of an existing key as it is.
SetKeepValue(o, key, value) ==
    IF key \in DOMAIN o.items
    THEN [o |-> o]
    ELSE [o |-> insertKeyValuePair(o, key, value).o]

\* Set that stores the value of an existing key in a new pair, which the
\* index refers to from then on while the list keeps the old one.
SetReplacesPair(o, key, value) ==
    IF key \in DOMAIN o.items
    THEN LET p == NewPair(o, key)
         IN  [o |-> [o EXCEPT !.pairs = o.pairs @@
                                  (p :> [o.pairs[o.items[key]] EXCEPT !.Value = value]),
                              !.items[key] = p]]
    ELSE [o |-> insertKeyValuePair(o, key, value).o]

\* OrderedMap.Set
Set(o, key, value) ==
    IF key \in DOMAIN o.items
    THEN [o |-> [o EXCEPT !.pairs[o.items[key]].Value = value]]
    ELSE [o |-> insertKeyValuePair(o, key, value).o]

\* Get that also moves the pair it finds to the front of the list.
GetMovesToFront(o, key) ==
    IF key \in DOMAIN o.items
    THEN [o |-> [o EXCEPT !.order =
                    ListMoveToFront(o.order, o.pairs[o.items[key]].element)],
          val |-> o.pairs[o.items[key]].Value, ok |-> TRUE]
    ELSE [o |-> o, val |-> NIL, ok |-> FALSE]

\* OrderedMap.Get
Get(o, key) ==
    IF key \in DOMAIN o.items
    THEN [o |-> o, val |-> o.pairs[o.items[key]].Value, ok |-> TRUE]
    ELSE [o |-> o, val |-> NIL, ok |-> FALSE]

\* GetOrDefault that stores the default under an absent key.
GetOrDefaultStores(o, key, defaultValue) ==
    LET g == Get(o, key)
    IN  IF g.val = NIL \/ ~g.ok
        THEN [o |-> Set(g.o, key, defaultValue).o, val |-> defaultValue]
        ELSE [o |-> g.o, val |-> g.val]

\* OrderedMap.GetOrDefault
GetOrDefault(o, key, defaultValue) ==
    LET g == Get(o, key)
    IN  IF g.val = NIL \/ ~g.ok
        THEN [o |-> g.o, val |-> defaultValue]
        ELSE [o |-> g.o, val |-> g.val]

\* Remove that deletes from the index only (no o.order.Remove).
RemoveKeepOrder(o, key) ==
    IF key \in DOMAIN o.items
    THEN LET kvp == o.items[key]
             o1  == [o EXCEPT !.items =
                        [k \in DOMAIN o.items \ {key} |-> o.items[k]]]
         IN  [o |-> o1, pair |-> kvp, ok |-> TRUE]
    ELSE [o |-> o, pair |-> NIL, ok |-> FALSE]

\* Remove that unlinks from the order only (no delete(o.items, key)).
RemoveKeepIndex(o, key) ==
    IF key \in DOMAIN o.items
    THEN LET kvp == o.items[key]
             o2  == [o EXCEPT !.order =
                        ListRemove(o.order, o.pairs[kvp].element)]
         IN  [o |-> o2, pair |-> kvp, ok |-> TRUE]
    ELSE [o |-> o, pair |-> NIL, ok |-> FALSE]

\* Remove that reports success for an absent key.
RemoveAlwaysOk(o, key) ==
    IF key \in DOMAIN o.items
    THEN LET kvp == o.items[key]
             o1  == [o EXCEPT !.items =
                        [k \in DOMAIN o.items \ {key} |-> o.items[k]]]
             o2  == [o1 EXCEPT !.order =
                        ListRemove(o1.order, o1.pairs[kvp].element)]
         IN  [o |-> o2, pair |-> kvp, ok |-> TRUE]
    ELSE [o |-> o, pair |-> NIL, ok |-> TRUE]

\* OrderedMap.Remove
Remove(o, key) ==
    IF key \in DOMAIN o.items
    THEN LET kvp == o.items[key]
             o1  == [o EXCEPT !.items =
                        [k \in DOMAIN o.items \ {key} |-> o.items[k]]]
             o2  == [o1 EXCEPT !.order =
                        ListRemove(o1.order, o1.pairs[kvp].element)]
         IN  [o |-> o2, pair |-> kvp, ok |-> TRUE]
    ELSE [o |-> o, pair |-> NIL, ok |-> FALSE]

\* OrderedMap.First
First(o) ==
    LET front == ListFront(o.order)
    IN  [o |-> o,
         pair |-> IF front = NIL THEN NIL ELSE o.order.elem[front].Value]

\* Last that asks the list for its front.
LastIsFront(o) ==
    LET last == ListFront(o.order)
    IN  [o |-> o,
         pair |-> IF last = NIL THEN NIL ELSE o.order.elem[last].Value]

\* OrderedMap.Last
Last(o) ==
    LET last == ListBack(o.order)
    IN  [o |-> o,
         pair |-> IF last = NIL THEN NIL ELSE o.order.elem[last].Value]

\* OrderedMap.Iterator: the cursor starts at the front element.
Iterator(o) == [pos |-> ListFront(o.order)]

\* Iterator.Next that leaves the cursor where it is (no i.pos = i.pos.Next()).
IteratorNextStays(o, it) ==
    IF it.pos = NIL THEN [it |-> it, pair |-> NIL]
    ELSE IF o.order.elem[it.pos].Value # NIL
         THEN [it |-> it, pair |-> o.order.elem[it.pos].Value]
         ELSE [it |-> it, pair |-> NIL]

\* Iterator.Next that goes from the last element back to the front one.
IteratorNextRewinds(o, it) ==
    IF it.pos = NIL THEN [it |-> it, pair |-> NIL]
    ELSE IF o.order.elem[it.pos].Value # NIL
         THEN [it |-> [pos |-> IF ElementNext(o.order, it.pos) = NIL
                               THEN ListFront(o.order)
                               ELSE ElementNext(o.order, it.pos)],
               pair |-> o.order.elem[it.pos].Value]
         ELSE [it |-> it, pair |-> NIL]

\* Iterator.Next: the pair at the cursor (nil when there is none) and the
\* cursor afterwards.
IteratorNext(o, it) ==
    IF it.pos = NIL THEN [it |-> it, pair |-> NIL]
    ELSE IF o.order.elem[it.pos].Value # NIL
         THEN [it |-> [pos |-> ElementNext(o.order, it.pos)],
               pair |-> o.order.elem[it.pos].Value]
         ELSE [it |-> it, pair |-> NIL]

\* The loop of OrderedMap.Keys.  A walk that would not end is cut off after
\* one step more than there are elements on the heap.
RECURSIVE KeysLoop(_, _, _, _)
KeysLoop(o, it, keys, fuel) ==
    LET n == IteratorNext(o, it)
    IN  IF n.pair = NIL \/ fuel = 0 THEN keys
        ELSE KeysLoop(o, n.it, Append(keys, o.pairs[n.pair].Key), fuel - 1)

\* OrderedMap.Keys
Keys(o) ==
    [o |-> o,
     keys |-> KeysLoop(o, Iterator(o), <<>>, Cardinality(DOMAIN o.order.elem))]

\* MoveToFront that asks the list to move the element to the back.
MoveToFrontMovesBack(o, key) ==
    IF key \in DOMAIN o.items
    THEN [o |-> [o EXCEPT !.order =
                    ListMoveToBack(o.order, o.pairs[o.items[key]].element)],
          err |-> NoError]
    ELSE [o |-> o, err |-> keyNotFound(key)]

\* OrderedMap.MoveToFront
MoveToFront(o, key) ==
    IF key \in DOMAIN o.items
    THEN [o |-> [o EXCEPT !.order =
                    ListMoveToFront(o.order, o.pairs[o.items[key]].element)],
          err |-> NoError]
    ELSE [o |-> o, err |-> keyNotFound(key)]

\* MoveToBack that asks the list to move the element to the front.
MoveToBackMovesFront(o, key) ==
    IF key \in DOMAIN o.items
    THEN [o |-> [o EXCEPT !.order =
                    ListMoveToFront(o.order, o.pairs[o.items[key]].element)],
          err |-> NoError]
    ELSE [o |-> o, err |-> keyNotFound(key)]

\* OrderedMap.MoveToBack
MoveToBack(o, key) ==
    IF key \in DOMAIN o.items
    THEN [o |-> [o EXCEPT !.order =
                    ListMoveToBack(o.order, o.pairs[o.items[key]].element)],
          err |-> NoError]
    ELSE [o |-> o, err |-> keyNotFound(key)]

\* MoveAfter that asks the list to move the element before the mark.
MoveAfterMovesBefore(o, key, after) ==
    IF key \in DOMAIN o.items
    THEN IF after \in DOMAIN o.items
         THEN [o |-> [o EXCEPT !.order =
                        ListMoveBefore(o.order, o.pairs[o.items[key]].element,
                                       o.pairs[o.items[after]].element)],
               err |-> NoError]
         ELSE [o |-> o, err |-> keyNotFound(after)]
    ELSE [o |-> o, err |-> keyNotFound(key)]

\* MoveAfter that rejects key == after the way InsertAfter does.
MoveAfterRejectsSelf(o, key, after) ==
    IF key \in DOMAIN o.items
    THEN IF after \in DOMAIN o.items
         THEN IF key = after
              THEN [o |-> o,
                    err |-> duplicateValue(o.pairs[o.items[key]].Key,
                                           o.pairs[o.items[key]].Value)]
              ELSE [o |-> [o EXCEPT !.order =
                        ListMoveAfter(o.order, o.pairs[o.items[key]].element,
                                      o.pairs[o.items[after]].element)],
                    err |-> NoError]
         ELSE [o |-> o, err |-> keyNotFound(after)]
    ELSE [o |-> o, err |-> keyNotFound(key)]

\* MoveAfter that looks up the mark before the key.
MoveAfterMarkFirst(o, key, after) ==
    IF after \in DOMAIN o.items
    THEN IF key \in DOMAIN o.items
         THEN [o |-> [o EXCEPT !.order =
                        ListMoveAfter(o.order, o.pairs[o.items[key]].element,
                                      o.pairs[o.items[after]].element)],
               err |-> NoError]
         ELSE [o |-> o, err |-> keyNotFound(key)]
    ELSE [o |-> o, err |-> keyNotFound(after)]

\* MoveAfter that moves the mark to just before key instead.
MoveAfterMovesMark(o, key, after) ==
    IF key \in DOMAIN o.items
    THEN IF after \in DOMAIN o.items
         THEN [o |-> [o EXCEPT !.order =
                        ListMoveBefore(o.order, o.pairs[o.items[after]].element,
                                       o.pairs[o.items[key]].element)],
               err |-> NoError]
         ELSE [o |-> o, err |-> keyNotFound(after)]
    ELSE [o |-> o, err |-> keyNotFound(key)]

\* OrderedMap.MoveAfter
MoveAfter(o, key, after) ==
    IF key \in DOMAIN o.items
    THEN IF after \in DOMAIN o.items
         THEN [o |-> [o EXCEPT !.order =
                        ListMoveAfter(o.order, o.pairs[o.items[key]].element,
                                      o.pairs[o.items[after]].element)],
               err |-> NoError]
         ELSE [o |-> o, err |-> keyNotFound(after)]
    ELSE [o |-> o, err |-> keyNotFound(key)]

\* MoveBefore that moves key to the front before it finds the mark missing.
MoveBeforeMovesThenFails(o, key, before) ==
    IF key \in DOMAIN o.items
    THEN IF before \in DOMAIN o.items
         THEN [o |-> [o EXCEPT !.order =
                        ListMoveBefore(o.order, o.pairs[o.items[key]].element,
                                       o.pairs[o.items[before]].element)],
               err |-> NoError]
         ELSE [o |-> [o EXCEPT !.order =
                        ListMoveToFront(o.order, o.pairs[o.items[key]].element)],
               err |-> keyNotFound(before)]
    ELSE [o |-> o, err |-> keyNotFound(key)]

\* OrderedMap.MoveBefore
MoveBefore(o, key, before) ==
    IF key \in DOMAIN o.items
    THEN IF before \in DOMAIN o.items
         THEN [o |-> [o EXCEPT !.order =
                        ListMoveBefore(o.order, o.pairs[o.items[key]].element,
                                       o.pairs[o.items[before]].element)],
               err |-> NoError]
         ELSE [o |-> o, err |-> keyNotFound(before)]
    ELSE [o |-> o, err |-> keyNotFound(key)]

\* InsertAfter that leaves the new pair where insertKeyValuePair put it.
InsertAfterNoMove(o, key, value, after) ==
    IF after \in DOMAIN o.items
    THEN LET mark == o.items[after]
         IN  IF key \in DOMAIN o.items
             THEN [o |-> o,
                   err |-> duplicateValue(o.pairs[o.items[key]].Key,
                                          o.pairs[o.items[key]].Value)]
             ELSE IF key = after
             THEN [o |-> o,
                   err |-> duplicateValue(o.pairs[mark].Key, o.pairs[mark].Value)]
             ELSE [o |-> insertKeyValuePair(o, key, value).o, err |-> NoError]
    ELSE [o |-> o, err |-> keyNotFound(key)]

\* InsertAfter that checks for an existing key before it looks up the mark.
InsertAfterKeyFirst(o, key, value, after) ==
    IF key \in DOMAIN o.items
    THEN [o |-> o,
          err |-> duplicateValue(o.pairs[o.items[key]].Key,
                                 o.pairs[o.items[key]].Value)]
    ELSE IF after \in DOMAIN o.items
    THEN LET mark == o.items[after]
             n == insertKeyValuePair(o, key, value)
         IN  [o |-> [n.o EXCEPT !.order =
                        ListMoveAfter(n.o.order, n.o.pairs[n.pair].element,
                                      n.o.pairs[mark].element)],
              err |-> NoError]
    ELSE [o |-> o, err |-> keyNotFound(key)]

\* InsertAfter whose DuplicateKeyValueError carries the value it was given.
InsertAfterReportsArgument(o, key, value, after) ==
    IF after \in DOMAIN o.items
    THEN LET mark == o.items[after]
         IN  IF key \in DOMAIN o.items
             THEN [o |-> o,
                   err |-> duplicateValue(o.pairs[o.items[key]].Key, value)]
             ELSE IF key = after
             THEN [o |-> o,
                   err |-> duplicateValue(o.pairs[mark].Key, o.pairs[mark].Value)]
             ELSE LET n == insertKeyValuePair(o, key, value)
                  IN  [o |-> [n.o EXCEPT !.order =
                                ListMoveAfter(n.o.order, n.o.pairs[n.pair].element,
                                              n.o.pairs[mark].element)],
                       err |-> NoError]
    ELSE [o |-> o, err |-> keyNotFound(key)]

\* InsertAfter that compares key with the mark before it looks key up.
InsertAfterSelfFirst(o, key, value, after) ==
    IF after \in DOMAIN o.items
    THEN LET mark == o.items[after]
         IN  IF key = after
             THEN [o |-> o, by |-> "self",
                   err |-> duplicateValue(o.pairs[mark].Key, o.pairs[mark].Value)]
             ELSE IF key \in DOMAIN o.items
             THEN [o |-> o, by |-> "exists",
                   err |-> duplicateValue(o.pairs[o.items[key]].Key,
                                          o.pairs[o.items[key]].Value)]
             ELSE LET n == insertKeyValuePair(o, key, value)
                  IN  [o |-> [n.o EXCEPT !.order =
                                ListMoveAfter(n.o.order, n.o.pairs[n.pair].element,
                                              n.o.pairs[mark].element)],
                       by |-> "inserted", err |-> NoError]
    ELSE [o |-> o, by |-> "mark", err |-> keyNotFound(key)]

\* OrderedMap.InsertAfter; by names the return statement that was taken.
InsertAfter(o, key, value, after) ==
    IF after \in DOMAIN o.items
    THEN LET mark == o.items[after]
         IN  IF key \in DOMAIN o.items
             THEN [o |-> o, by |-> "exists",
                   err |-> duplicateValue(o.pairs[o.items[key]].Key,
                                          o.pairs[o.items[key]].Value)]
             ELSE IF key = after
             THEN [o |-> o, by |-> "self",
                   err |-> duplicateValue(o.pairs[mark].Key, o.pairs[mark].Value)]
             ELSE LET n == insertKeyValuePair(o, key, value)
                  IN  [o |-> [n.o EXCEPT !.order =
                                ListMoveAfter(n.o.order, n.o.pairs[n.pair].element,
                                              n.o.pairs[mark].element)],
                       by |-> "inserted", err |-> NoError]
    ELSE [o |-> o, by |-> "mark", err |-> keyNotFound(key)]

\* InsertBefore that rejects an existing key only when it is not the mark.
InsertBeforeSelfInserts(o, key, value, before) ==
    IF before \in DOMAIN o.items
    THEN LET mark == o.items[before]
         IN  IF key \in DOMAIN o.items /\ key # before
             THEN [o |-> o,
                   err |-> duplicateValue(o.pairs[o.items[key]].Key,
                                          o.pairs[o.items[key]].Value)]
             ELSE LET n == insertKeyValuePair(o, key, value)
                  IN  [o |-> [n.o EXCEPT !.order =
                                ListMoveBefore(n.o.order, n.o.pairs[n.pair].element,
                                               n.o.pairs[mark].element)],
                       err |-> NoError]
    ELSE [o |-> o, err |-> keyNotFound(key)]

\* OrderedMap.InsertBefore; by names the return statement that was taken.
InsertBefore(o, key, value, before) ==
    IF before \in DOMAIN o.items
    THEN LET mark == o.items[before]
         IN  IF key \in DOMAIN o.items
             THEN [o |-> o, by |-> "exists",
                   err |-> duplicateValue(o.pairs[o.items[key]].Key,
                                          o.pairs[o.items[key]].Value)]
             ELSE IF key = before
             THEN [o |-> o, by |-> "self",
                   err |-> duplicateValue(o.pairs[mark].Key, o.pairs[mark].Value)]
             ELSE LET n == insertKeyValuePair(o, key, value)
                  IN  [o |-> [n.o EXCEPT !.order =
                                ListMoveBefore(n.o.order, n.o.pairs[n.pair].element,
                                               n.o.pairs[mark].element)],
                       by |-> "inserted", err |-> NoError]
    ELSE [o |-> o, by |-> "mark", err |-> keyNotFound(key)]

\* ---- Equal ---------------------------------------------------------------
\* reflect.DeepEqual on the values of two pairs.
DeepEqual(a, b) == a = b

\* The outcomes of Equal: it returns a bool, or it panics on a nil pointer.
Returned(b) == [ok |-> b, panics |-> FALSE]
Panicked == [ok |-> FALSE, panics |-> TRUE]

\* The loop of Equal over the two iterators. A walk that would not end is cut
\* off like the loop of Keys.
RECURSIVE EqualLoop(_, _, _, _, _)
EqualLoop(xo, yo, xIt, yIt, fuel) ==
    LET xn == IteratorNext(xo, xIt)
        yn == IteratorNext(yo, yIt)
    IN  IF fuel = 0 THEN Panicked
        ELSE IF xn.pair = NIL /\ yn.pair = NIL THEN Returned(TRUE)
        ELSE IF (xn.pair = NIL /\ yn.pair # NIL) \/ (yn.pair = NIL /\ xn.pair # NIL)
             THEN Returned(FALSE)
        ELSE IF xo.pairs[xn.pair].Key # yo.pairs[yn.pair].Key THEN Returned(FALSE)
        ELSE IF ~DeepEqual(xo.pairs[xn.pair].Value, yo.pairs[yn.pair].Value)
             THEN Returned(FALSE)
        ELSE EqualLoop(xo, yo, xn.it, yn.it, fuel - 1)

\* Equal that looks every key of x up in y instead of walking both in step.
EqualIgnoresOrder(x, y, maps) ==
    IF (x = NIL /\ y # NIL) \/ (y = NIL /\ x # NIL) THEN Returned(FALSE)
    ELSE IF x = NIL THEN Panicked
    ELSE IF ListLen(maps[x].order) # ListLen(maps[y].order) THEN Returned(FALSE)
    ELSE Returned(\A k \in DOMAIN maps[x].items :
                      /\ Get(maps[y], k).ok
                      /\ DeepEqual(Get(maps[x], k).val, Get(maps[y], k).val))

\* Equal that is true only of a map and itself.
EqualSamePointer(x, y, maps) ==
    IF (x = NIL /\ y # NIL) \/ (y = NIL /\ x # NIL) THEN Returned(FALSE)
    ELSE IF x = NIL THEN Panicked
    ELSE Returned(x = y)

\* Equal that tests only x for nil before it reads both lengths.
EqualChecksLeftOnly(x, y, maps) ==
    IF x = NIL /\ y # NIL THEN Returned(FALSE)
    ELSE IF x = NIL \/ y = NIL THEN Panicked
    ELSE IF ListLen(maps[x].order) # ListLen(maps[y].order) THEN Returned(FALSE)
    ELSE EqualLoop(maps[x], maps[y], Iterator(maps[x]), Iterator(maps[y]),
                   Cardinality(DOMAIN maps[x].order.elem) + 1)

\* Equal(x, y): x and y are pointers, nil or an address in maps. With both
\* nil the first test is false and x.order is read through the nil pointer.
Equal(x, y, maps) ==
    IF (x = NIL /\ y # NIL) \/ (y = NIL /\ x # NIL) THEN Returned(FALSE)
    ELSE IF x = NIL THEN Panicked
    ELSE IF ListLen(maps[x].order) # ListLen(maps[y].order) THEN Returned(FALSE)
    ELSE EqualLoop(maps[x], maps[y], Iterator(maps[x]), Iterator(maps[y]),
                   Cardinality(DOMAIN maps[x].order.elem) + 1)

\* ---- String and GoString -------------------------------------------------
\* The decimal digits fmt writes for a non-negative integer.
RECURSIVE FormatInt(_)
FormatInt(n) ==
    LET d == <<"0", "1", "2", "3", "4", "5", "6", "7", "8", "9">>[(n % 10) + 1]
    IN  IF n < 10 THEN <<d>> ELSE Append(FormatInt(n \div 10), d)

\* A piece of text written by one WriteString call: the fixed text, and the
\* formatted key and value where the format has them.
Lit(str) == [s |-> str, key |-> <<>>, value |-> <<>>]
Fmt(str, key, value) ==
    [s |-> str, key |-> FormatInt(key), value |-> FormatInt(value)]

\* The loop of OrderedMap.String over the list.
RECURSIVE StringLoop(_, _, _, _)
StringLoop(o, e, buf, fuel) ==
    IF e = NIL \/ fuel = 0 THEN buf
    ELSE LET p == o.pairs[o.order.elem[e].Value]
         IN  StringLoop(o, ElementNext(o.order, e),
                        Append(buf, Fmt("\t%v=%v,\n", p.Key, p.Value)), fuel - 1)

\* OrderedMap.String, o a pointer: nil or an address in maps.
String(o, maps) ==
    LET buf == <<Lit("OrderedMap[%T,%T]")>>
    IN  IF o # NIL /\ ListLen(maps[o].order) > 0
        THEN StringLoop(maps[o], ListFront(maps[o].order), buf,
                        Cardinality(DOMAIN maps[o].order.elem))
        ELSE Append(buf, Lit("{}"))

\* GoString whose loop stops at the last element instead of after it.
RECURSIVE GoStringLoopStopsEarly(_, _, _, _)
GoStringLoopStopsEarly(o, e, buf, fuel) ==
    IF e = NIL \/ fuel = 0 THEN buf
    ELSE IF ElementNext(o.order, e) = NIL THEN buf
    ELSE LET p == o.pairs[o.order.elem[e].Value]
             b == Append(buf, Fmt("\tSet(%#v, %#v)", p.Key, p.Value))
         IN  GoStringLoopStopsEarly(o, ElementNext(o.order, e),
                                    Append(b, Lit(".\n")), fuel - 1)

\* The loop of OrderedMap.GoString over the list.
RECURSIVE GoStringLoop(_, _, _, _)
GoStringLoop(o, e, buf, fuel) ==
    IF e = NIL \/ fuel = 0 THEN buf
    ELSE LET p == o.pairs[o.order.elem[e].Value]
             b == Append(buf, Fmt("\tSet(%#v, %#v)", p.Key, p.Value))
         IN  GoStringLoop(o, ElementNext(o.order, e),
                          IF ElementNext(o.order, e) # NIL
                          THEN Append(b, Lit(".\n")) ELSE b,
                          fuel - 1)

\* GoString that leaves the last pair out.
GoStringDropsLast(o, maps) ==
    IF o = NIL THEN <<Lit("(*orderedmap.OrderedMap[%T, %T])(nil)")>>
    ELSE LET buf == <<Lit("orderedmap.New[%T,%T]()")>>
         IN  IF o # NIL /\ ListLen(maps[o].order) > 0
             THEN GoStringLoopStopsEarly(maps[o], ListFront(maps[o].order),
                                         Append(buf, Lit(".\n")),
                                         Cardinality(DOMAIN maps[o].order.elem))
             ELSE buf

\* OrderedMap.GoString, o a pointer: nil or an address in maps.
GoString(o, maps) ==
    IF o = NIL THEN <<Lit("(*orderedmap.OrderedMap[%T, %T])(nil)")>>
    ELSE LET buf == <<Lit("orderedmap.New[%T,%T]()")>>
         IN  IF o # NIL /\ ListLen(maps[o].order) > 0
             THEN GoStringLoop(maps[o], ListFront(maps[o].order),
                               Append(buf, Lit(".\n")),
                               Cardinality(DOMAIN maps[o].order.elem))
             ELSE buf

\* ---- internal/myers --------------------------------------------------------
\* A string is the sequence of its bytes; byte i of Go is element i + 1.  The
\* escape sequences lineDiff.String() writes are one element each.
Red == "\\033[31m"
Green == "\\033[32m"
Reset == "\\033[0m"
\* A byte of a backing array beyond the length of the slice: zero.
Zero == "\\x00"

\* The capacity of the array the runtime gives []byte(s) when the result
\* stays on the stack; otherwise the array may be no longer than s.
TmpBuf == 32

point(x, y) == [X |-> x, Y |-> y]

step(from, to) == [from |-> from, to |-> to]

\* Whether e[idx] of editList.get is an index in range.
InRange(e, idx) ==
    IF idx < 0 THEN Len(e) + idx >= 0 ELSE idx < Len(e)

\* editList.get: a negative index counts from the end.
get(e, idx) ==
    IF idx < 0 THEN e[Len(e) + idx + 1] ELSE e[idx + 1]

\* min
min(a, b) == IF a <= b THEN a ELSE b

\* lineDiff.String(): op is "del", "ins" or "eql".
lineDiffString(op, a) ==
    IF op = "del" THEN <<Red>> \o a \o <<Reset>>
    ELSE IF op = "ins" THEN <<Green>> \o a \o <<Reset>>
    ELSE a

\* The slice expression b[lo:hi] of a slice b with capacity cap: whether it
\* is in range, and its bytes.
SliceOK(lo, hi, cap) == 0 <= lo /\ lo <= hi /\ hi <= cap

Slice(b, lo, hi) ==
    [i \in 1..(hi - lo) |-> IF lo + i <= Len(b) THEN b[lo + i] ELSE Zero]

\* The inner loop of ses: x after the snake along the diagonal, or -1 when
\* rhs[y] is read at a negative y.
RECURSIVE snake(_, _, _, _)
snake(lhs, rhs, x, y) ==
    IF x < Len(lhs) /\ y < Len(rhs)
    THEN IF y < 0 THEN -1
         ELSE IF lhs[x + 1] = rhs[y + 1] THEN snake(lhs, rhs, x + 1, y + 1)
         ELSE x
    ELSE x

\* The loops of ses from round d, diagonal k on; v is the editList and
\* trace the copies taken of it at the start of every round.
RECURSIVE sesLoop(_, _, _, _, _, _)
sesLoop(lhs, rhs, v, trace, d, k) ==
    LET n == Len(lhs)
        m == Len(rhs)
        tr == IF k = -d THEN Append(trace, v) ELSE trace
    IN  IF d > n + m THEN [trace |-> trace, panics |-> FALSE]
        ELSE IF k > d THEN sesLoop(lhs, rhs, v, tr, d + 1, -(d + 1))
        ELSE IF ~InRange(v, k - 1) \/ ~InRange(v, k + 1)
             THEN [trace |-> tr, panics |-> TRUE]
        ELSE LET preK == get(v, k - 1)
                 postK == get(v, k + 1)
                 x0 == IF k = -d \/ (k # d /\ preK < postK) THEN postK ELSE preK + 1
                 x == snake(lhs, rhs, x0, x0 - k)
                 y == x - k
                 v1 == IF k < 0 THEN [v EXCEPT ![Len(v) + k + 1] = x]
                       ELSE [v EXCEPT ![k + 1] = x]
             IN  IF x = -1 THEN [trace |-> tr, panics |-> TRUE]
                 ELSE IF x >= n /\ y >= m THEN [trace |-> tr, panics |-> FALSE]
                 ELSE sesLoop(lhs, rhs, v1, tr, d, k + 2)

\* ses: the editLists of the rounds of the search for a shortest edit script.
ses(lhs, rhs) ==
    sesLoop(lhs, rhs, [i \in 1..(2 * (Len(lhs) + Len(rhs)) + 1) |-> 0], <<>>, 0, 0)

\* The inner loop of backtrack: one step for every byte of the snake.
RECURSIVE diagonal(_, _, _, _, _)
diagonal(x, y, prevX, prevY, steps) ==
    IF x > prevX /\ y > prevY
    THEN diagonal(x - 1, y - 1, prevX, prevY,
                  Append(steps, step(point(x - 1, y - 1), point(x, y))))
    ELSE [x |-> x, y |-> y, steps |-> steps]

\* The outer loop of backtrack, from round d down to round 0.
RECURSIVE backtrackLoop(_, _, _, _, _)
backtrackLoop(edits, d, x, y, steps) ==
    IF d < 0 THEN [steps |-> steps, panics |-> FALSE]
    ELSE LET v == edits[d + 1]
             k == x - y
         IN  IF k # -d /\ k # d /\ (~InRange(v, k - 1) \/ ~InRange(v, k + 1))
             THEN [steps |-> steps, panics |-> TRUE]
             ELSE LET prevK == IF k = -d \/ (k # d /\ get(v, k - 1) < get(v, k + 1))
                               THEN k + 1 ELSE k - 1
                  IN  IF ~InRange(v, prevK) THEN [steps |-> steps, panics |-> TRUE]
                      ELSE LET prevX == get(v, prevK)
                               prevY == prevX - prevK
                               g == diagonal(x, y, prevX, prevY, steps)
                               s == IF d > 0
                                    THEN Append(g.steps,
                                                step(point(prevX, prevY), point(g.x, g.y)))
                                    ELSE g.steps
                           IN  backtrackLoop(edits, d - 1, prevX, prevY, s)

\* backtrack: the steps of the edit script, the last one first.
backtrack(lhs, rhs) ==
    LET e == ses(lhs, rhs)
    IN  IF e.panics THEN [steps |-> <<>>, panics |-> TRUE]
        ELSE backtrackLoop(e.trace, Len(e.trace) - 1, Len(lhs), Len(rhs), <<>>)

\* The less function Diff hands to sort.SliceStable.
less(i, j) == TRUE

\* The inner loop of the insertion sort of sort.SliceStable, which sorts
\* slices of up to 20 elements that way: s[j] moves down while it is less
\* than the element before it.
RECURSIVE insertionLoop(_, _)
insertionLoop(s, j) ==
    IF j > 0 /\ less(j, j - 1)
    THEN insertionLoop([s EXCEPT ![j + 1] = s[j], ![j] = s[j + 1]], j - 1)
    ELSE s

RECURSIVE insertionSort(_, _)
insertionSort(s, i) ==
    IF i >= Len(s) THEN s ELSE insertionSort(insertionLoop(s, i), i + 1)

\* sort.SliceStable(steps, less)
SliceStable(s) == insertionSort(s, 1)

\* The loop of Diff over steps[i..]: buf is what was written, prevA and
\* unequal are the variables of that name, cap is the capacity of rhs.
RECURSIVE DiffLoop(_, _, _, _, _, _, _, _)
DiffLoop(lhs, rhs, cap, steps, i, buf, prevA, unequal) ==
    IF i > Len(steps)
    THEN [buf |-> buf, prevA |-> prevA, unequal |-> unequal, panics |-> FALSE]
    ELSE LET s == steps[i]
             failed == [buf |-> buf, prevA |-> prevA, unequal |-> unequal, panics |-> TRUE]
         IN  IF s.to.X = s.from.X
             THEN IF ~SliceOK(min(prevA, s.to.Y), s.to.Y, cap)
                       \/ ~SliceOK(s.from.Y, s.to.Y, cap)
                  THEN failed
                  ELSE DiffLoop(lhs, rhs, cap, steps, i + 1,
                           buf \o lineDiffString("eql", Slice(rhs, min(prevA, s.to.Y), s.to.Y))
                               \o lineDiffString("ins", Slice(rhs, s.from.Y, s.to.Y)),
                           s.to.Y + 1, TRUE)
             ELSE IF s.to.Y = s.from.Y
             THEN IF ~SliceOK(min(prevA, s.from.X), s.from.X, cap)
                       \/ ~SliceOK(s.from.X, s.to.X, Len(lhs))
                  THEN failed
                  ELSE DiffLoop(lhs, rhs, cap, steps, i + 1,
                           buf \o lineDiffString("eql", Slice(rhs, min(prevA, s.from.X), s.from.X))
                               \o lineDiffString("del", Slice(lhs, s.from.X, s.to.X)),
                           s.from.X + 1, TRUE)
             ELSE IF ~SliceOK(s.from.Y, s.to.Y, cap)
                  THEN failed
                  ELSE DiffLoop(lhs, rhs, cap, steps, i + 1,
                           buf \o lineDiffString("eql", Slice(rhs, s.from.Y, s.to.Y)),
                           s.to.Y + 1, unequal)

\* Diff(first, second), with the capacity cap of the slice []byte(second):
\* the text and the flag it returns, or that it panics.
Diff(first, second, cap) ==
    LET b == backtrack(first, second)
        none == [text |-> <<>>, ok |-> FALSE, panics |-> TRUE]
    IN  IF b.panics THEN none
        ELSE LET r == DiffLoop(first, second, cap, SliceStable(b.steps), 1, <<>>, 0, FALSE)
             IN  IF r.panics THEN none
                 ELSE IF r.unequal /\ r.prevA < Len(second)
                      THEN [text |-> r.buf \o Slice(second, r.prevA, Len(second)),
                            ok |-> TRUE, panics |-> FALSE]
                 ELSE IF r.unequal THEN [text |-> r.buf, ok |-> TRUE, panics |-> FALSE]
                 ELSE [text |-> <<>>, ok |-> FALSE, panics |-> FALSE]

\* ---- the program as a state machine -------------------------------------
\* The map held by the variables.
Map == [items |-> items, order |-> order, pairs |-> pairs]

\* The elements linked into the list of o: those met from the root along
\* next, at most fuel of them.
RECURSIVE Linked(_, _, _)
Linked(l, e, fuel) ==
    LET n == l.elem[e].next
    IN  IF n = ROOT \/ n = NIL \/ fuel = 0 THEN {}
        ELSE {n} \cup Linked(l, n, fuel - 1)

\* Garbage collection: the heap of o without the pairs and elements that
\* neither the index nor the list refers to any more.
Collect(o) ==
    LET inList == Linked(o.order, ROOT, Cardinality(DOMAIN o.order.elem))
        ps == {o.items[k] : k \in DOMAIN o.items}
                \cup ({o.order.elem[e].Value : e \in inList} \ {NIL})
        es == {ROOT} \cup inList \cup ({o.pairs[p].element : p \in ps} \ {NIL})
    IN  [o EXCEPT !.pairs = [p \in ps |-> o.pairs[p]],
                  !.order.elem = [e \in es |-> o.order.elem[e]]]

\* The map a call starts from: the caller has let go of what earlier calls
\* returned, so that only the map itself keeps objects alive.
Cur == Collect(Map)

\* The pairs of o as <<Key, Value>>, in the order of Keys(o), each value
\* fetched with Get.
Entries(o) ==
    LET ks == Keys(o).keys
    IN  [i \in 1..Len(ks) |-> <<ks[i], Get(o, ks[i]).val>>]

\* What a caller can see of o: its keys in order, its pairs in order, its
\* length and the keys of its index.
View(o) ==
    [keys |-> Keys(o).keys, entries |-> Entries(o),
     len |-> ListLen(o.order), index |-> DOMAIN o.items]

\* Value of a result field the called method does not return.
NoResult ==
    [ok |-> FALSE, val |-> NIL, pair |-> NIL, err |-> NoError, keys |-> <<>>,
     slice |-> NIL, panics |-> FALSE, text |-> <<>>]

\* The calls that store value under key: every Set, and an InsertAfter or
\* InsertBefore that returned no error.
Stores(op, res) ==
    \/ op = "Set"
    \/ op \in {"InsertAfter", "InsertBefore"} /\ res.err = NoError

\* A call of method op with arguments key, value, mark took the map to r.o
\* and returned res.
Returns(op, key, value, mark, r, res) ==
    /\ items' = r.o.items
    /\ order' = r.o.order
    /\ pairs' = r.o.pairs
    /\ call' = [op |-> op, key |-> key, value |-> value, mark |-> mark]
    /\ ret' = res
    /\ pre' = [view |-> View(Map), removed |-> removed]
    /\ latest' = IF Stores(op, res) THEN (key :> value) @@ latest
                 ELSE IF op = "Remove" /\ res.ok
                      THEN [k \in DOMAIN latest \ {key} |-> latest[k]]
                 ELSE IF op = "Init" THEN <<>>
                 ELSE latest
    /\ removed' = IF Stores(op, res) THEN removed \ {key}
                  ELSE IF op = "Remove" /\ res.ok THEN removed \cup {key}
                  ELSE removed
    /\ UNCHANGED <<kept, compared, elsewhere>>

\* No goroutine is inside Set.
Idle == [pc |-> "idle", key |-> NIL, value |-> NIL, existing |-> NIL, pair |-> NIL,
         element |-> NIL, calls |-> 0]

\* No Diff call has been made.
NoDiff == [first |-> <<>>, second |-> <<>>, cap |-> 0, text |-> <<>>, ok |-> FALSE,
           panics |-> FALSE]

\* Everything but the callers' choice of guarding the map with a mutex.
Fresh ==
    /\ items = New.items
    /\ order = New.order
    /\ pairs = New.pairs
    /\ call = [op |-> "New", key |-> NIL, value |-> NIL, mark |-> NIL]
    /\ ret = NoResult
    /\ pre = [view |-> View(New), removed |-> {}]
    /\ latest = <<>>
    /\ removed = {}
    /\ iters = <<>>
    /\ seen = <<>>
    /\ arrays = <<>>
    /\ held = NIL
    /\ heldWas = <<>>
    /\ other = New
    /\ eqargs = [x |-> NIL, y |-> NIL]
    /\ reworked = FALSE
    /\ born = <<>>
    /\ diff = NoDiff
    /\ procs = [t \in Goroutines |-> Idle]
    /\ lock = NIL

Start == Fresh /\ locking = TRUE

CallInit ==
    Returns("Init", NIL, NIL, NIL, Init(Cur), NoResult)

CallSet ==
    \E key \in KeySet, value \in ValSet :
        Returns("Set", key, value, NIL, Set(Cur, key, value), NoResult)

CallGet ==
    \E key \in KeySet :
        LET r == Get(Cur, key)
        IN  Returns("Get", key, NIL, NIL, r,
                    [NoResult EXCEPT !.val = r.val, !.ok = r.ok])

CallGetOrDefault ==
    \E key \in KeySet, defaultValue \in ValSet :
        LET r == GetOrDefault(Cur, key, defaultValue)
        IN  Returns("GetOrDefault", key, defaultValue, NIL, r,
                    [NoResult EXCEPT !.val = r.val])

CallRemove ==
    \E key \in KeySet :
        LET r == Remove(Cur, key)
        IN  Returns("Remove", key, NIL, NIL, r,
                    [NoResult EXCEPT !.pair = r.pair, !.ok = r.ok])

CallFirst ==
    LET r == First(Cur)
    IN  Returns("First", NIL, NIL, NIL, r, [NoResult EXCEPT !.pair = r.pair])

CallLast ==
    LET r == Last(Cur)
    IN  Returns("Last", NIL, NIL, NIL, r, [NoResult EXCEPT !.pair = r.pair])

CallKeys ==
    LET r == Keys(Cur)
    IN  Returns("Keys", NIL, NIL, NIL, r, [NoResult EXCEPT !.keys = r.keys])

CallMoveToFront ==
    \E key \in KeySet :
        LET r == MoveToFront(Cur, key)
        IN  Returns("MoveToFront", key, NIL, NIL, r,
                    [NoResult EXCEPT !.err = r.err])

CallMoveToBack ==
    \E key \in KeySet :
        LET r == MoveToBack(Cur, key)
        IN  Returns("MoveToBack", key, NIL, NIL, r,
                    [NoResult EXCEPT !.err = r.err])

CallMoveAfter ==
    \E key \in KeySet, after \in KeySet :
        LET r == MoveAfter(Cur, key, after)
        IN  Returns("MoveAfter", key, NIL, after, r,
                    [NoResult EXCEPT !.err = r.err])

CallMoveBefore ==
    \E key \in KeySet, before \in KeySet :
        LET r == MoveBefore(Cur, key, before)
        IN  Returns("MoveBefore", key, NIL, before, r,
                    [NoResult EXCEPT !.err = r.err])

CallInsertAfter ==
    \E key \in KeySet, value \in ValSet, after \in KeySet :
        LET r == InsertAfter(Cur, key, value, after)
        IN  Returns("InsertAfter", key, value, after, r,
                    [NoResult EXCEPT !.err = r.err])

CallInsertBefore ==
    \E key \in KeySet, value \in ValSet, before \in KeySet :
        LET r == InsertBefore(Cur, key, value, before)
        IN  Returns("InsertBefore", key, value, before, r,
                    [NoResult EXCEPT !.err = r.err])

Next ==
    \/ CallInit
    \/ CallSet
    \/ CallGet
    \/ CallGetOrDefault
    \/ CallRemove
    \/ CallFirst
    \/ CallLast
    \/ CallKeys
    \/ CallMoveToFront
    \/ CallMoveToBack
    \/ CallMoveAfter
    \/ CallMoveBefore
    \/ CallInsertAfter
    \/ CallInsertBefore

Spec == Start /\ [][Next]_vars

\* ---- a caller that iterates ----------------------------------------------
\* The loop of OrderedMap.String and GoString: the pairs met from Front()
\* along Element.Next(), cut off like the loop of Keys.
RECURSIVE WalkLoop(_, _, _, _)
WalkLoop(l, e, out, fuel) ==
    IF e = NIL \/ fuel = 0 THEN out
    ELSE WalkLoop(l, ElementNext(l, e), Append(out, l.elem[e].Value), fuel - 1)

Walk(o) ==
    WalkLoop(o.order, ListFront(o.order), <<>>, Cardinality(DOMAIN o.order.elem))

\* The slices the caller can still reach.
LiveArrays == [a \in DOMAIN arrays \cap {held} |-> arrays[a]]

\* A call of a mutating method made while the caller builds the map up;
\* only the name of the method is recorded. Slices the caller dropped are
\* collected.
Builds(op, r) ==
    /\ items' = r.o.items
    /\ order' = r.o.order
    /\ pairs' = r.o.pairs
    /\ call' = [op |-> op, key |-> NIL, value |-> NIL, mark |-> NIL]
    /\ ret' = NoResult
    /\ arrays' = LiveArrays
    /\ eqargs' = [x |-> NIL, y |-> NIL]
    /\ UNCHANGED <<pre, latest, removed, iters, seen, held, heldWas, born, other, reworked,
                 elsewhere>>

BuildInit == Builds("Init", Init(Cur))

BuildSet == \E key \in KeySet, value \in ValSet : Builds("Set", Set(Cur, key, value))

BuildRemove == \E key \in KeySet : Builds("Remove", Remove(Cur, key))

BuildMoveToFront == \E key \in KeySet : Builds("MoveToFront", MoveToFront(Cur, key))

BuildMoveToBack == \E key \in KeySet : Builds("MoveToBack", MoveToBack(Cur, key))

BuildMoveAfter ==
    \E key \in KeySet, after \in KeySet :
        Builds("MoveAfter", MoveAfter(Cur, key, after))

BuildMoveBefore ==
    \E key \in KeySet, before \in KeySet :
        Builds("MoveBefore", MoveBefore(Cur, key, before))

BuildInsertAfter ==
    \E key \in KeySet, value \in ValSet, after \in KeySet :
        Builds("InsertAfter", InsertAfter(Cur, key, value, after))

BuildInsertBefore ==
    \E key \in KeySet, value \in ValSet, before \in KeySet :
        Builds("InsertBefore", InsertBefore(Cur, key, value, before))

\* The caller creates an Iterator.
CallIterator ==
    /\ Len(iters) < MaxIters
    /\ iters' = Append(iters, Iterator(Map))
    /\ seen' = Append(seen, <<>>)
    /\ born' = Append(born, Cardinality(DOMAIN items))
    /\ call' = [op |-> "Iterator", key |-> NIL, value |-> NIL, mark |-> NIL]
    /\ ret' = NoResult
    /\ UNCHANGED <<items, order, pairs, pre, latest, removed, arrays, held, heldWas,
                     compared, elsewhere>>

\* Next as if the Iterators of one map shared one cursor: the call moves
\* all of them.
CallNextAdvancesAll ==
    \E i \in 1..Len(iters) :
        /\ Len(seen[i]) < MaxNext
        /\ LET n == IteratorNext(Map, iters[i])
           IN  /\ iters' = [k \in DOMAIN iters |-> n.it]
               /\ seen' = [seen EXCEPT ![i] = Append(@, n.pair)]
               /\ ret' = [NoResult EXCEPT !.pair = n.pair]
        /\ call' = [op |-> "Next", key |-> NIL, value |-> NIL, mark |-> NIL]
        /\ UNCHANGED <<items, order, pairs, pre, latest, removed, arrays, held, heldWas,
                     born, compared, elsewhere>>

\* The caller calls Next on one of its Iterators.
CallNext ==
    \E i \in 1..Len(iters) :
        /\ Len(seen[i]) < MaxNext
        /\ LET n == IteratorNext(Map, iters[i])
           IN  /\ iters' = [iters EXCEPT ![i] = n.it]
               /\ seen' = [seen EXCEPT ![i] = Append(@, n.pair)]
               /\ ret' = [NoResult EXCEPT !.pair = n.pair]
        /\ call' = [op |-> "Next", key |-> NIL, value |-> NIL, mark |-> NIL]
        /\ UNCHANGED <<items, order, pairs, pre, latest, removed, arrays, held, heldWas,
                     born, compared, elsewhere>>

\* The caller builds a map, then iterates over it without touching it.
NextIter ==
    \/ iters = <<>> /\ BuildInit
    \/ iters = <<>> /\ BuildSet
    \/ iters = <<>> /\ BuildRemove
    \/ iters = <<>> /\ BuildMoveToFront
    \/ iters = <<>> /\ BuildMoveToBack
    \/ iters = <<>> /\ BuildMoveAfter
    \/ iters = <<>> /\ BuildMoveBefore
    \/ iters = <<>> /\ BuildInsertAfter
    \/ iters = <<>> /\ BuildInsertBefore
    \/ CallIterator
    \/ CallNext

SpecIter == Start /\ [][NextIter]_vars

\* ---- a caller that changes the map while it iterates ---------------------
\* The caller stores values with Set between the Next calls of its Iterators.
NextLive ==
    \/ CallSet
    \/ iters = <<>> /\ CallIterator
    \/ CallNext

SpecLive == Start /\ [][NextLive]_vars

\* ---- a caller that keeps the result of Keys() --------------------------------
\* make([]K, 0): the address of a new backing array, the lowest one free.
MakeSlice(arrs) ==
    CHOOSE a \in 1..(Cardinality(DOMAIN arrs) + 1) :
        a \notin DOMAIN arrs /\ \A b \in 1..(a - 1) : b \in DOMAIN arrs

\* Keys() that fills a backing array kept from an earlier call, if there is one.
KeysIntoCached(o, arrs) ==
    LET a == IF DOMAIN arrs = {} THEN MakeSlice(arrs)
             ELSE CHOOSE b \in DOMAIN arrs : \A c \in DOMAIN arrs : b <= c
    IN  [o |-> o, arrays |-> (a :> Keys(o).keys) @@ arrs, slice |-> a]

\* OrderedMap.Keys with its result on the heap: a new slice holding the keys
\* the loop appended.
KeysInto(o, arrs) ==
    LET a == MakeSlice(arrs)
    IN  [o |-> o, arrays |-> (a :> Keys(o).keys) @@ arrs, slice |-> a]

\* The keys of the pairs met walking the list from the front.
WalkKeys(o) == [j \in 1..Len(Walk(o)) |-> o.pairs[Walk(o)[j]].Key]

KeysReturns(r) ==
    /\ arrays' = r.arrays
    /\ call' = [op |-> "Keys", key |-> NIL, value |-> NIL, mark |-> NIL]
    /\ ret' = [NoResult EXCEPT !.keys = r.arrays[r.slice], !.slice = r.slice]
    /\ UNCHANGED <<items, order, pairs, pre, latest, removed, iters, seen, born, compared,
                 elsewhere>>

\* The caller calls Keys() and looks at the result.
CallKeysLook ==
    /\ KeysReturns(KeysInto(Map, LiveArrays))
    /\ UNCHANGED <<held, heldWas>>

\* The caller calls Keys() and keeps the result.
CallKeysHold ==
    /\ held = NIL
    /\ LET r == KeysInto(Map, LiveArrays)
       IN  KeysReturns(r) /\ held' = r.slice
    /\ heldWas' = WalkKeys(Map)

NextKeys ==
    \/ BuildInit
    \/ BuildSet
    \/ BuildRemove
    \/ BuildMoveToFront
    \/ BuildMoveToBack
    \/ BuildMoveAfter
    \/ BuildMoveBefore
    \/ BuildInsertAfter
    \/ BuildInsertBefore
    \/ CallKeysLook
    \/ CallKeysHold

SpecKeys == Start /\ [][NextKeys]_vars

\* ---- a caller that compares two maps ------------------------------------
\* The maps the caller has pointers to: 1 is the map, 2 the second one.
Maps == <<Map, other>>

\* A call of a mutating method on the map while the caller prepares the
\* comparison; what the call left unreachable is collected at once, and it
\* is noted when a call other than Set changed the map.
Prepares(op, r) ==
    /\ LET c == Collect(r.o)
       IN  /\ items' = c.items
           /\ order' = c.order
           /\ pairs' = c.pairs
           /\ reworked' = (reworked \/ (op # "Set" /\ c # Map))
    /\ eqargs' = [x |-> NIL, y |-> NIL]
    /\ call' = [op |-> "Prepare", key |-> NIL, value |-> NIL, mark |-> NIL]
    /\ ret' = NoResult
    /\ UNCHANGED <<pre, latest, removed, kept, other, elsewhere>>

PrepareInit == Prepares("Init", Init(Cur))

PrepareSet ==
    \E key \in KeySet, value \in ValSet : Prepares("Set", Set(Cur, key, value))

PrepareRemove == \E key \in KeySet : Prepares("Remove", Remove(Cur, key))

PrepareMoveToFront ==
    \E key \in KeySet : Prepares("MoveToFront", MoveToFront(Cur, key))

PrepareMoveToBack ==
    \E key \in KeySet : Prepares("MoveToBack", MoveToBack(Cur, key))

PrepareMoveAfter ==
    \E key \in KeySet, after \in KeySet :
        Prepares("MoveAfter", MoveAfter(Cur, key, after))

PrepareMoveBefore ==
    \E key \in KeySet, before \in KeySet :
        Prepares("MoveBefore", MoveBefore(Cur, key, before))

PrepareInsertAfter ==
    \E key \in KeySet, value \in ValSet, after \in KeySet :
        Prepares("InsertAfter", InsertAfter(Cur, key, value, after))

PrepareInsertBefore ==
    \E key \in KeySet, value \in ValSet, before \in KeySet :
        Prepares("InsertBefore", InsertBefore(Cur, key, value, before))

\* The caller builds the second map with a chain of Set calls, as
\* New().Set(..).Set(..) does.
OtherSet ==
    \E key \in KeySet, value \in ValSet :
        /\ other' = Collect(Set(Collect(other), key, value).o)
        /\ eqargs' = [x |-> NIL, y |-> NIL]
        /\ call' = [op |-> "Prepare", key |-> NIL, value |-> NIL, mark |-> NIL]
        /\ ret' = NoResult
        /\ UNCHANGED <<items, order, pairs, pre, latest, removed, kept, reworked, elsewhere>>

\* The caller calls Equal(x, y), each of x and y nil or one of its maps.
CallEqual ==
    \E x \in {NIL} \cup DOMAIN Maps, y \in {NIL} \cup DOMAIN Maps :
        LET r == Equal(x, y, Maps)
        IN  /\ eqargs' = [x |-> x, y |-> y]
            /\ call' = [op |-> "Equal", key |-> NIL, value |-> NIL, mark |-> NIL]
            /\ ret' = [NoResult EXCEPT !.ok = r.ok, !.panics = r.panics]
            /\ UNCHANGED <<items, order, pairs, pre, latest, removed, kept, other,
                           reworked, elsewhere>>

\* The caller builds the two maps, then makes one Equal call.
Preparing == call.op # "Equal"

NextEqual ==
    \/ Preparing /\ PrepareInit
    \/ Preparing /\ PrepareSet
    \/ Preparing /\ PrepareRemove
    \/ Preparing /\ PrepareMoveToFront
    \/ Preparing /\ PrepareMoveToBack
    \/ Preparing /\ PrepareMoveAfter
    \/ Preparing /\ PrepareMoveBefore
    \/ Preparing /\ PrepareInsertAfter
    \/ Preparing /\ PrepareInsertBefore
    \/ Preparing /\ OtherSet
    \/ Preparing /\ CallEqual

SpecEqual == Start /\ [][NextEqual]_vars

\* ---- a caller that reads --------------------------------------------------
\* The caller prints the map, or a nil pointer to one.
CallString ==
    \E x \in {NIL, 1} :
        /\ ret' = [NoResult EXCEPT !.text = String(x, Maps)]
        /\ call' = [op |-> "String", key |-> NIL, value |-> NIL, mark |-> NIL]
        /\ UNCHANGED <<items, order, pairs, pre, latest, removed, kept, compared, elsewhere>>

CallGoString ==
    \E x \in {NIL, 1} :
        /\ ret' = [NoResult EXCEPT !.text = GoString(x, Maps)]
        /\ call' = [op |-> "GoString", key |-> NIL, value |-> NIL, mark |-> NIL]
        /\ UNCHANGED <<items, order, pairs, pre, latest, removed, kept, compared, elsewhere>>

\* The caller builds a map, then only reads it, Equal calls last.
Building == call.op \in {"New", "Prepare"}
Reading == call.op # "Equal"

NextRead ==
    \/ Building /\ PrepareInit
    \/ Building /\ PrepareSet
    \/ Building /\ PrepareRemove
    \/ Building /\ PrepareMoveToFront
    \/ Building /\ PrepareMoveToBack
    \/ Building /\ PrepareMoveAfter
    \/ Building /\ PrepareMoveBefore
    \/ Building /\ PrepareInsertAfter
    \/ Building /\ PrepareInsertBefore
    \/ Reading /\ CallGet
    \/ Reading /\ CallGetOrDefault
    \/ Reading /\ CallFirst
    \/ Reading /\ CallLast
    \/ Reading /\ CallKeys
    \/ Reading /\ iters = <<>> /\ CallIterator
    \/ Reading /\ CallNext
    \/ Reading /\ CallString
    \/ Reading /\ CallGoString
    \/ CallEqual

SpecRead == Start /\ [][NextRead]_vars

\* ---- a caller of myers.Diff ---------------------------------------------
\* The strings of up to MaxLen bytes over the alphabet.
Alphabet == {"a", "b"}

Strings == UNION {[1..n -> Alphabet] : n \in 0..MaxLen}

\* The caller compares two strings, once.  The runtime backs []byte(second)
\* with an array of just the length of second or with its 32 byte buffer.
CallDiff ==
    \E first \in Strings, second \in Strings :
      \E cap \in {Len(second), TmpBuf} :
        /\ call.op # "Diff"
        /\ LET d == Diff(first, second, cap)
           IN  diff' = [first |-> first, second |-> second, cap |-> cap,
                        text |-> d.text, ok |-> d.ok, panics |-> d.panics]
        /\ call' = [op |-> "Diff", key |-> NIL, value |-> NIL, mark |-> NIL]
        /\ ret' = NoResult
        /\ UNCHANGED <<items, order, pairs, pre, latest, removed, kept, compared,
                       procs, lock, locking>>

NextDiff == CallDiff

SpecDiff == Start /\ [][NextDiff]_vars

\* ---- goroutines that call Set at the same time --------------------------
\* Every goroutine calls Set up to MaxCalls times.  A step is one statement
\* of Set and insertKeyValuePair, PushBack being two: it reads the last
\* element, then links the new one after it.  When the callers guard the map
\* they take the mutex before a call and give it back after it.
Enters(t) ==
    /\ procs[t].pc = "idle"
    /\ procs[t].calls < MaxCalls
    /\ locking => lock = NIL

Leaves(t) == IF locking THEN NIL ELSE lock

RaceFrame(t, key, value) ==
    /\ call' = [op |-> "Set", key |-> key, value |-> value, mark |-> NIL]
    /\ ret' = NoResult
    /\ UNCHANGED <<pre, latest, removed, kept, compared, diff, locking>>

\* Set that takes every key for a new one (no lookup in o.items).
SetLookupMisses(t) ==
    \E key \in KeySet, value \in ValSet :
        /\ Enters(t)
        /\ procs' = [procs EXCEPT ![t].pc = "absent", ![t].key = key, ![t].value = value,
                                  ![t].existing = NIL]
        /\ lock' = IF locking THEN t ELSE lock
        /\ RaceFrame(t, key, value)
        /\ UNCHANGED <<items, order, pairs>>

\* existing, ok := o.items[key]
SetLookup(t) ==
    \E key \in KeySet, value \in ValSet :
        /\ Enters(t)
        /\ procs' = [procs EXCEPT
                        ![t].pc = IF key \in DOMAIN items THEN "found" ELSE "absent",
                        ![t].key = key, ![t].value = value,
                        ![t].existing = IF key \in DOMAIN items THEN items[key] ELSE NIL]
        /\ lock' = IF locking THEN t ELSE lock
        /\ RaceFrame(t, key, value)
        /\ UNCHANGED <<items, order, pairs>>

\* existing.Value = value; return o
SetStore(t) ==
    /\ procs[t].pc = "found"
    /\ pairs' = [pairs EXCEPT ![procs[t].existing].Value = procs[t].value]
    /\ procs' = [procs EXCEPT ![t].pc = "idle", ![t].calls = @ + 1]
    /\ lock' = Leaves(t)
    /\ RaceFrame(t, procs[t].key, procs[t].value)
    /\ UNCHANGED <<items, order>>

\* pair := KeyValuePair{...} and the first half of o.order.PushBack(&pair):
\* the new element is made and the last element of the list is read.
SetPushBackReads(t) ==
    /\ procs[t].pc = "absent"
    /\ LET p == NewPair(Map, procs[t].key)
           e == NewElem(Map, p)
       IN  /\ pairs' = pairs @@ (p :> KeyValuePair(procs[t].key, procs[t].value))
           /\ order' = [order EXCEPT !.elem = order.elem @@ (e :> NewElement(p))]
           /\ procs' = [procs EXCEPT ![t].pc = "linking", ![t].pair = p, ![t].element = e,
                                     ![t].existing = order.elem[ROOT].prev]
    /\ RaceFrame(t, procs[t].key, procs[t].value)
    /\ UNCHANGED <<items, lock>>

\* The second half of PushBack: the element is linked after the element
\* read as the last one.
SetPushBackLinks(t) ==
    /\ procs[t].pc = "linking"
    /\ order' = ListInsert(order, procs[t].element, procs[t].existing)
    /\ procs' = [procs EXCEPT ![t].pc = "pushed"]
    /\ RaceFrame(t, procs[t].key, procs[t].value)
    /\ UNCHANGED <<items, pairs, lock>>

\* o.items[key] = &pair
SetIndex(t) ==
    /\ procs[t].pc = "pushed"
    /\ items' = (procs[t].key :> procs[t].pair) @@ items
    /\ procs' = [procs EXCEPT ![t].pc = "indexed"]
    /\ RaceFrame(t, procs[t].key, procs[t].value)
    /\ UNCHANGED <<order, pairs, lock>>

\* pair.element = element; return
SetElement(t) ==
    /\ procs[t].pc = "indexed"
    /\ pairs' = [pairs EXCEPT ![procs[t].pair].element = procs[t].element]
    /\ procs' = [procs EXCEPT ![t].pc = "idle", ![t].calls = @ + 1]
    /\ lock' = Leaves(t)
    /\ RaceFrame(t, procs[t].key, procs[t].value)
    /\ UNCHANGED <<items, order>>

\* The runtime finds a goroutine writing o.items while another one writes or
\* reads it and ends the program ("concurrent map writes").
SetFatal(t) ==
    /\ procs[t].pc = "pushed"
    /\ \E u \in Goroutines \ {t} :
          \/ procs[u].pc = "pushed"
          \/ procs[u].pc = "idle" /\ procs[u].calls < MaxCalls /\ ~locking
    /\ procs' = [u \in Goroutines |-> [procs[u] EXCEPT !.pc = "crashed"]]
    /\ RaceFrame(t, procs[t].key, procs[t].value)
    /\ UNCHANGED <<items, order, pairs, lock>>

NextRace ==
    \E t \in Goroutines :
        \/ SetLookup(t)
        \/ SetStore(t)
        \/ SetPushBackReads(t)
        \/ SetPushBackLinks(t)
        \/ SetIndex(t)
        \/ SetElement(t)
        \/ SetFatal(t)

\* The callers either guard the map with a mutex or they do not.
StartRace == Fresh /\ locking \in BOOLEAN

SpecRace == StartRace /\ [][NextRace]_vars

\* ---- typing -------------------------------------------------------------
TypeOK ==
    /\ DOMAIN items \subseteq KeySet
    /\ \A k \in DOMAIN items : items[k] \in DOMAIN pairs
    /\ order.len \in 0..NumKeys
    /\ removed \subseteq KeySet

\* ---- observations used by the properties --------------------------------
\* What a caller can see of the map now.
Now == View(Map)

\* The set of members of a sequence.
Range(seq) == {seq[i] : i \in 1..Len(seq)}

\* No member occurs twice.
NoDuplicates(seq) == \A i, j \in 1..Len(seq) : seq[i] = seq[j] => i = j

\* The value paired with key in a sequence of <<key, value>> that has it.
ValueIn(entries, key) ==
    entries[CHOOSE i \in 1..Len(entries) : entries[i][1] = key][2]

\* The sequence of <<key, value>> without the pairs of key.
Without(entries, key) == SelectSeq(entries, LAMBDA en : en[1] # key)

\* The sequence of <<key, value>> with the value of key replaced.
WithValue(entries, key, value) ==
    [i \in 1..Len(entries) |->
        IF entries[i][1] = key THEN <<key, value>> ELSE entries[i]]

\* The elements linked into the map's list.
InOrder == Linked(order, ROOT, Cardinality(DOMAIN order.elem))

\* ---- properties ---------------------------------------------------------

\* C1 (bijection): in every reachable state the keys of the index are
\* exactly the keys met when walking the order front to back, no key is met
\* twice, and the walk is as long as the index has entries (and as the
\* list's own length says).
C1_Bijection ==
    /\ Range(Now.keys) = DOMAIN items
    /\ NoDuplicates(Now.keys)
    /\ Len(Now.keys) = Cardinality(DOMAIN items)
    /\ ListLen(order) = Cardinality(DOMAIN items)

\* C1 witness: a full map whose last call was a successful insertion that
\* did not leave the new key at the back.
C1_Witness ==
    /\ call.op = "InsertBefore" /\ ret.err = NoError
    /\ Len(Now.keys) = NumKeys
    /\ Now.keys[NumKeys] # call.key

\* C2 (position coherence): for every key of the index, the element stored
\* in its pair is linked into the map's list and holds that very pair; no
\* two keys share an element.
C2_PositionCoherence ==
    /\ \A k \in DOMAIN items :
          /\ pairs[items[k]].element \in InOrder
          /\ order.elem[pairs[items[k]].element].Value = items[k]
    /\ \A k1, k2 \in DOMAIN items :
          pairs[items[k1]].element = pairs[items[k2]].element => k1 = k2

\* C2 witness: a full map that a move has just reordered.
C2_Witness ==
    /\ call.op = "MoveAfter" /\ ret.err = NoError
    /\ Cardinality(DOMAIN items) = NumKeys
    /\ Now.keys # pre.view.keys

\* C3 (Set of an absent key appends): after Set(k, v) with k absent, the
\* keys are the previous keys followed by k, Get(k) yields v, the size is
\* one more, and the previous pairs are where and what they were.
C3_SetAbsentAppends ==
    (call.op = "Set" /\ call.key \notin pre.view.index) =>
        /\ Now.keys = Append(pre.view.keys, call.key)
        /\ Get(Map, call.key).ok /\ Get(Map, call.key).val = call.value
        /\ Now.len = pre.view.len + 1
        /\ Now.index = pre.view.index \cup {call.key}
        /\ Now.entries = Append(pre.view.entries, <<call.key, call.value>>)

\* C3 witness: Set of an absent key on a map that held two or more pairs.
C3_Witness ==
    /\ call.op = "Set" /\ call.key \notin pre.view.index
    /\ Len(pre.view.keys) >= 2

\* C4 (Set of a present key): after Set(k, v) with k present the keys and
\* the size are what they were and only k's value differs, wherever k sits.
C4_SetPresentKeepsOrder ==
    (call.op = "Set" /\ call.key \in pre.view.index) =>
        /\ Now.keys = pre.view.keys
        /\ Now.len = pre.view.len
        /\ Now.index = pre.view.index
        /\ Now.entries = WithValue(pre.view.entries, call.key, call.value)

\* C4 witness: Set gave a new value to the key in the middle of three.
C4_Witness ==
    /\ call.op = "Set"
    /\ Len(pre.view.keys) = 3 /\ pre.view.keys[2] = call.key
    /\ pre.view.entries[2][2] # call.value

\* C5 (Get): Get(k) returns the value most recently stored for k by Set or
\* by a successful InsertAfter/InsertBefore since k was last absent, with
\* found = true; for an absent k it returns nil with found = false, never a
\* value reported as found.
C5_GetLatest ==
    call.op = "Get" =>
        IF call.key \in DOMAIN latest
        THEN ret.ok /\ ret.val = latest[call.key]
        ELSE ~ret.ok /\ ret.val = NIL

\* C5 witness: Get found the highest value under the last key of a full map.
C5_Witness ==
    /\ call.op = "Get" /\ ret.ok
    /\ call.key = Now.keys[Len(Now.keys)]
    /\ Len(Now.keys) = NumKeys
    /\ ret.val = NumVals

\* C6 (GetOrDefault): GetOrDefault(k, d) returns the stored value of a
\* present k and d for an absent k, and changes nothing of the map.
C6_GetOrDefault ==
    call.op = "GetOrDefault" =>
        /\ ret.val = IF call.key \in pre.view.index
                     THEN ValueIn(pre.view.entries, call.key)
                     ELSE call.value
        /\ Now = pre.view

\* C6 witness: GetOrDefault of a present key whose value is not the default.
C6_Witness ==
    /\ call.op = "GetOrDefault"
    /\ call.key \in pre.view.index
    /\ ret.val # call.value

\* C7 (Remove of a present key): Remove(k) returns found = true and the pair
\* of k with the value k had, takes exactly that pair out of the index and
\* of the order, and leaves the other pairs with their values in the same
\* relative order.
C7_RemovePresent ==
    (call.op = "Remove" /\ call.key \in pre.view.index) =>
        /\ ret.ok /\ ret.pair # NIL
        /\ pairs[ret.pair].Key = call.key
        /\ pairs[ret.pair].Value = ValueIn(pre.view.entries, call.key)
        /\ Now.index = pre.view.index \ {call.key}
        /\ Now.entries = Without(pre.view.entries, call.key)
        /\ Now.len = pre.view.len - 1

\* C7 witness: Remove took the middle one of three pairs.
C7_Witness ==
    /\ call.op = "Remove" /\ ret.ok
    /\ Len(pre.view.keys) = 3 /\ pre.view.keys[2] = call.key

\* C8 (Remove of an absent key): Remove(k) returns nil and found = false and
\* the map has the same keys, values and order as before.
C8_RemoveAbsent ==
    (call.op = "Remove" /\ call.key \notin pre.view.index) =>
        /\ ~ret.ok /\ ret.pair = NIL
        /\ Now = pre.view

\* C8 witness: Remove of an absent key on a map of two or more pairs.
C8_Witness ==
    /\ call.op = "Remove" /\ call.key \notin pre.view.index
    /\ Len(pre.view.keys) >= 2

\* The call failed with a KeyNotFoundError.
FailedKeyNotFound == ret.err.kind = "KeyNotFound"

\* C9 (no tombstone): from a successful Remove(k) until k is added again, k
\* is in neither the index nor the order, Get(k) and Remove(k) report
\* not-found, the moves naming k as key or as mark and the inserts naming k
\* as mark fail with KeyNotFound, Keys() omits k, nothing in the index or
\* in the order refers to the element the removed pair had, and a Set(k, v)
\* puts k at the back of the order.
C9_NoTombstone ==
    /\ \A k \in removed : k \notin DOMAIN items /\ k \notin Range(Now.keys)
    /\ (call.op = "Get" /\ call.key \in pre.removed) => ~ret.ok /\ ret.val = NIL
    /\ (call.op = "Remove" /\ call.key \in pre.removed) => ~ret.ok /\ ret.pair = NIL
    /\ (call.op \in {"MoveToFront", "MoveToBack", "MoveAfter", "MoveBefore"}
            /\ call.key \in pre.removed) => FailedKeyNotFound
    /\ (call.op \in {"MoveAfter", "MoveBefore", "InsertAfter", "InsertBefore"}
            /\ call.mark \in pre.removed) => FailedKeyNotFound
    /\ (call.op = "Keys") => Range(ret.keys) \cap pre.removed = {}
    /\ (call.op = "Remove" /\ ret.ok) =>
          LET gone == pairs[ret.pair].element
          IN  /\ gone \notin InOrder
              /\ order.elem[gone].list = NIL
              /\ \A e \in InOrder \cup {ROOT} :
                    order.elem[e].next # gone /\ order.elem[e].prev # gone
              /\ \A k \in DOMAIN items : pairs[items[k]].element # gone
    /\ (call.op = "Set" /\ call.key \in pre.removed) =>
          /\ Now.keys = Append(pre.view.keys, call.key)
          /\ Len(pre.view.keys) = Len(Now.keys) - 1

\* C9 witness: a key that had been removed was set again and is now the last
\* of three, behind two higher keys.
C9_Witness ==
    /\ call.op = "Set" /\ call.key \in pre.removed
    /\ Len(Now.keys) = 3 /\ Now.keys[3] = call.key
    /\ call.key < Now.keys[1] /\ call.key < Now.keys[2]

\* C10 (First and Last): First() and Last() are nil exactly when the map is
\* empty; otherwise First() is the pair of the first key of Keys() and
\* Last() the pair of the last key, with their current values, in every
\* reachable state, and that is what the calls return.
C10_FirstLast ==
    LET ks == Now.keys
        f  == First(Map).pair
        l  == Last(Map).pair
    IN  /\ (f = NIL) <=> (ks = <<>>)
        /\ (l = NIL) <=> (ks = <<>>)
        /\ ks # <<>> =>
              /\ f = items[ks[1]] /\ pairs[f].Key = ks[1]
              /\ pairs[f].Value = latest[ks[1]]
              /\ l = items[ks[Len(ks)]] /\ pairs[l].Key = ks[Len(ks)]
              /\ pairs[l].Value = latest[ks[Len(ks)]]
        /\ Len(ks) = 1 => f = l
        /\ call.op = "First" =>
              ret.pair = IF pre.view.keys = <<>> THEN NIL ELSE items[pre.view.keys[1]]
        /\ call.op = "Last" =>
              ret.pair = IF pre.view.keys = <<>> THEN NIL
                         ELSE items[pre.view.keys[Len(pre.view.keys)]]

\* C10 witness: Last() returned the pair of the lowest key of a full map.
C10_Witness ==
    /\ call.op = "Last" /\ ret.pair # NIL
    /\ Len(pre.view.keys) = NumKeys
    /\ pairs[ret.pair].Key = 1
    /\ pre.view.keys[1] = NumKeys

\* The position of key in a sequence of <<key, value>> that has it.
IndexIn(entries, key) == CHOOSE i \in 1..Len(entries) : entries[i][1] = key

\* The sequence of <<key, value>> with en put right after the pair of mark.
PlacedAfter(entries, en, mark) ==
    LET i == IndexIn(entries, mark)
    IN  SubSeq(entries, 1, i) \o <<en>> \o SubSeq(entries, i + 1, Len(entries))

\* The sequence of <<key, value>> with en put right before the pair of mark.
PlacedBefore(entries, en, mark) ==
    LET i == IndexIn(entries, mark)
    IN  SubSeq(entries, 1, i - 1) \o <<en>> \o SubSeq(entries, i, Len(entries))

\* The pair <<key, value>> that key had before the call.
PreEntry(key) == <<key, ValueIn(pre.view.entries, key)>>

\* C13 (MoveToFront, MoveToBack): with k present the call returns no error,
\* k is the first (resp. last) key, the other pairs keep their relative
\* order, and the key set, the size and every value are what they were.
C13_MoveToEnds ==
    /\ (call.op = "MoveToFront" /\ call.key \in pre.view.index) =>
          /\ ret.err = NoError
          /\ Now.entries = <<PreEntry(call.key)>> \o Without(pre.view.entries, call.key)
          /\ Now.keys[1] = call.key
          /\ Now.index = pre.view.index /\ Now.len = pre.view.len
    /\ (call.op = "MoveToBack" /\ call.key \in pre.view.index) =>
          /\ ret.err = NoError
          /\ Now.entries = Without(pre.view.entries, call.key) \o <<PreEntry(call.key)>>
          /\ Now.keys[Len(Now.keys)] = call.key
          /\ Now.index = pre.view.index /\ Now.len = pre.view.len

\* C13 witness: MoveToFront took the last of three keys to the front.
C13_Witness ==
    /\ call.op = "MoveToFront" /\ ret.err = NoError
    /\ Len(pre.view.keys) = 3 /\ pre.view.keys[3] = call.key
    /\ Now.keys[1] = call.key

\* C14 (boundary moves): MoveToFront of the first key and MoveToBack of the
\* last key return no error and leave keys, values and order as they were;
\* and after a successful MoveToFront(k) or MoveToBack(k) the same call
\* again leaves the map as it is.
C14_BoundaryMoves ==
    /\ (call.op = "MoveToFront" /\ pre.view.keys # <<>>
            /\ pre.view.keys[1] = call.key) =>
          ret.err = NoError /\ Now = pre.view
    /\ (call.op = "MoveToBack" /\ pre.view.keys # <<>>
            /\ pre.view.keys[Len(pre.view.keys)] = call.key) =>
          ret.err = NoError /\ Now = pre.view
    /\ (call.op = "MoveToFront" /\ ret.err = NoError) =>
          /\ MoveToFront(Map, call.key).err = NoError
          /\ MoveToFront(Map, call.key).o = Map
    /\ (call.op = "MoveToBack" /\ ret.err = NoError) =>
          /\ MoveToBack(Map, call.key).err = NoError
          /\ MoveToBack(Map, call.key).o = Map

\* C14 witness: MoveToBack of the key that was already the last of three.
C14_Witness ==
    /\ call.op = "MoveToBack" /\ ret.err = NoError
    /\ Len(pre.view.keys) = 3 /\ pre.view.keys[3] = call.key

\* C15 (MoveAfter, MoveBefore): with k and m present and k # m the call
\* returns no error, k is right after (resp. right before) m, the pairs
\* other than k's keep their relative order, and the key set, the size and
\* every value are what they were.
C15_MoveRelative ==
    /\ (call.op = "MoveAfter" /\ call.key # call.mark
            /\ {call.key, call.mark} \subseteq pre.view.index) =>
          /\ ret.err = NoError
          /\ Now.entries = PlacedAfter(Without(pre.view.entries, call.key),
                                       PreEntry(call.key), call.mark)
          /\ Now.index = pre.view.index /\ Now.len = pre.view.len
    /\ (call.op = "MoveBefore" /\ call.key # call.mark
            /\ {call.key, call.mark} \subseteq pre.view.index) =>
          /\ ret.err = NoError
          /\ Now.entries = PlacedBefore(Without(pre.view.entries, call.key),
                                        PreEntry(call.key), call.mark)
          /\ Now.index = pre.view.index /\ Now.len = pre.view.len

\* C15 witness: MoveAfter(first, second) on a map of three gave
\* second, first, third.
C15_Witness ==
    /\ call.op = "MoveAfter" /\ ret.err = NoError
    /\ Len(pre.view.keys) = 3
    /\ pre.view.keys[1] = call.key /\ pre.view.keys[2] = call.mark
    /\ Now.keys = <<call.mark, call.key, pre.view.keys[3]>>

\* C16 (self-relative moves): MoveAfter(k, k) and MoveBefore(k, k) with k
\* present return no error and leave keys, values and order as they were.
C16_SelfMove ==
    (call.op \in {"MoveAfter", "MoveBefore"} /\ call.key = call.mark
            /\ call.key \in pre.view.index) =>
        ret.err = NoError /\ Now = pre.view

\* C16 witness: MoveAfter(k, k) for the middle key of three.
C16_Witness ==
    /\ call.op = "MoveAfter" /\ call.key = call.mark
    /\ Len(pre.view.keys) = 3 /\ pre.view.keys[2] = call.key

\* C17 (moves report the absent key): MoveToFront(k) and MoveToBack(k) with
\* k absent fail with KeyNotFound carrying k; MoveAfter(k, m) and
\* MoveBefore(k, m) fail with KeyNotFound carrying k when k is absent,
\* whether m is present or not, and carrying m when only m is absent.
C17_MoveKeyNotFound ==
    /\ (call.op \in {"MoveToFront", "MoveToBack"}
            /\ call.key \notin pre.view.index) =>
          ret.err = keyNotFound(call.key)
    /\ (call.op \in {"MoveAfter", "MoveBefore"}
            /\ call.key \notin pre.view.index) =>
          ret.err = keyNotFound(call.key)
    /\ (call.op \in {"MoveAfter", "MoveBefore"}
            /\ call.key \in pre.view.index
            /\ call.mark \notin pre.view.index) =>
          ret.err = keyNotFound(call.mark)

\* C17 witness: MoveBefore(k, m) on a map that has neither k nor m.
C17_Witness ==
    /\ call.op = "MoveBefore" /\ call.key # call.mark
    /\ call.key \notin pre.view.index /\ call.mark \notin pre.view.index
    /\ pre.view.keys # <<>>
    /\ ret.err.key = call.key

\* C18 (InsertAfter, InsertBefore): with m present and k absent the call
\* returns no error, the pair (k, v) is right after (resp. right before)
\* m, the size is one more, and the previous pairs keep their values and
\* their relative order.
C18_InsertRelative ==
    /\ (call.op = "InsertAfter" /\ call.mark \in pre.view.index
            /\ call.key \notin pre.view.index) =>
          /\ ret.err = NoError
          /\ Now.entries = PlacedAfter(pre.view.entries,
                                       <<call.key, call.value>>, call.mark)
          /\ Now.len = pre.view.len + 1
          /\ Now.index = pre.view.index \cup {call.key}
    /\ (call.op = "InsertBefore" /\ call.mark \in pre.view.index
            /\ call.key \notin pre.view.index) =>
          /\ ret.err = NoError
          /\ Now.entries = PlacedBefore(pre.view.entries,
                                        <<call.key, call.value>>, call.mark)
          /\ Now.len = pre.view.len + 1
          /\ Now.index = pre.view.index \cup {call.key}

\* C18 witness: InsertAfter put a new key between the two keys of a map.
C18_Witness ==
    /\ call.op = "InsertAfter" /\ ret.err = NoError
    /\ Len(pre.view.keys) = 2 /\ pre.view.keys[1] = call.mark
    /\ Now.keys = <<call.mark, call.key, pre.view.keys[2]>>

\* C19 (mark first): InsertAfter and InsertBefore with m absent fail with
\* KeyNotFound whether k is present or not, and add nothing.
C19_InsertMarkFirst ==
    (call.op \in {"InsertAfter", "InsertBefore"}
            /\ call.mark \notin pre.view.index) =>
        FailedKeyNotFound /\ Now = pre.view

\* C19 witness: InsertAfter(k, v, m) with k present and m absent.
C19_Witness ==
    /\ call.op = "InsertAfter"
    /\ call.mark \notin pre.view.index /\ call.key \in pre.view.index
    /\ FailedKeyNotFound

\* C20 (which key the error carries): the KeyNotFound error of InsertAfter
\* and InsertBefore with m absent carries the mark m, not the key k.
C20_InsertErrorCarriesMark ==
    (call.op \in {"InsertAfter", "InsertBefore"}
            /\ call.mark \notin pre.view.index) =>
        ret.err = keyNotFound(call.mark)

\* C12 (iteration without mutation): an Iterator of a map whose pairs in
\* order are e1..en, n the number of keys, no pair twice, has returned
\* e1, e2, ... on its first Next calls and nil on every call after the
\* n-th; on an empty map already the first call returned nil.
C12_IterationInOrder ==
    LET w == Walk(Map)
    IN  /\ Len(w) = Cardinality(DOMAIN items) /\ NoDuplicates(w)
        /\ \A i \in 1..Len(iters) :
              \A j \in 1..Len(seen[i]) :
                  seen[i][j] = IF j <= Len(w) THEN w[j] ELSE NIL

\* C12 witness: an Iterator of a map of three keys, the highest key first,
\* returned the three pairs and then nil twice.
C12_Witness ==
    /\ Len(iters) = 1 /\ Len(seen[1]) = 5
    /\ Cardinality(DOMAIN items) = 3
    /\ pairs[seen[1][1]].Key = 3 /\ seen[1][3] # NIL
    /\ seen[1][4] = NIL /\ seen[1][5] = NIL

\* C11 (Keys is a snapshot of the current order): the slice a Keys() call
\* has just returned holds the keys in the order of the list at that call
\* (nothing for an empty map), and a slice returned by an earlier call
\* still holds what it held when it was returned, whatever was called since.
C11_KeysSnapshot ==
    /\ call.op = "Keys" =>
          ret.slice \in DOMAIN arrays /\ arrays[ret.slice] = WalkKeys(Map)
    /\ held # NIL => held \in DOMAIN arrays /\ arrays[held] = heldWas

\* C11 witness: the caller holds a slice of three keys from an earlier
\* Keys(), and a Keys() call made after the map changed has just returned
\* another slice with other contents.
C11_Witness ==
    /\ held # NIL /\ Len(heldWas) = 3
    /\ call.op = "Keys" /\ ret.slice # held
    /\ arrays[ret.slice] # heldWas

\* The call failed with a DuplicateKeyValueError for key and the value key
\* had before the call.
FailedDuplicateOf(key) ==
    ret.err = duplicateValue(key, ValueIn(pre.view.entries, key))

\* C21 (insert rejection on duplicate): InsertAfter and InsertBefore of
\* (k, v, m) with m present and k present return DuplicateKeyValue carrying
\* k and the value stored for k, not v, and leave keys, values and order as
\* they were; no InsertAfter or InsertBefore call changes the value of a key
\* that was present.
C21_InsertDuplicate ==
    /\ (call.op \in {"InsertAfter", "InsertBefore"}
            /\ call.mark \in pre.view.index /\ call.key \in pre.view.index) =>
          /\ FailedDuplicateOf(call.key)
          /\ Now = pre.view
          /\ WalkKeys(Map) = pre.view.keys
    /\ (call.op \in {"InsertAfter", "InsertBefore"}
            /\ call.key \in pre.view.index) =>
          /\ call.key \in Now.index
          /\ ValueIn(Now.entries, call.key) = ValueIn(pre.view.entries, call.key)

\* C21 witness: InsertAfter(k, v, m) with m present, k another present key
\* and v not the value stored for k.
C21_Witness ==
    /\ call.op = "InsertAfter" /\ call.key # call.mark
    /\ call.mark \in pre.view.index /\ call.key \in pre.view.index
    /\ call.value # ValueIn(pre.view.entries, call.key)
    /\ ret.err.kind = "DuplicateKeyValue"

\* C22 (insert relative to itself): InsertAfter(k, v, k) and
\* InsertBefore(k, v, k) fail with DuplicateKeyValue carrying k and its
\* stored value when k is present and with KeyNotFound when k is absent,
\* and the map is as it was in both cases.
C22_InsertSelf ==
    (call.op \in {"InsertAfter", "InsertBefore"} /\ call.key = call.mark) =>
        /\ Now = pre.view
        /\ WalkKeys(Map) = pre.view.keys
        /\ IF call.key \in pre.view.index
           THEN FailedDuplicateOf(call.key)
           ELSE FailedKeyNotFound

\* C22 witness: InsertBefore(k, v, k) with k present and v not its stored
\* value, on a map of two keys.
C22_Witness ==
    /\ call.op = "InsertBefore" /\ call.key = call.mark
    /\ call.key \in pre.view.index /\ Len(pre.view.keys) = 2
    /\ call.value # ValueIn(pre.view.entries, call.key)
    /\ ret.err.kind = "DuplicateKeyValue"

\* C23 (all or nothing): when MoveToFront, MoveToBack, MoveAfter,
\* MoveBefore, InsertAfter or InsertBefore returns an error, the keys, the
\* values, the order, the size and the index are what they were before the
\* call, and the list still holds exactly the keys of the index.
C23_AllOrNothing ==
    (call.op \in {"MoveToFront", "MoveToBack", "MoveAfter", "MoveBefore",
                  "InsertAfter", "InsertBefore"}
            /\ ret.err # NoError) =>
        /\ Now = pre.view
        /\ WalkKeys(Map) = pre.view.keys
        /\ Range(WalkKeys(Map)) = DOMAIN items
        /\ Len(Walk(Map)) = Cardinality(DOMAIN items)

\* C23 witness: MoveBefore(k, m) failed with k present, not at the front of
\* a map of two keys, and m absent.
C23_Witness ==
    /\ call.op = "MoveBefore" /\ ret.err # NoError
    /\ call.key \in pre.view.index /\ call.mark \notin pre.view.index
    /\ Len(pre.view.keys) = 2 /\ pre.view.keys[2] = call.key

\* C24 (Init resets to a new map): after Init() the map, with the objects
\* nothing refers to any more left out, is the map New() returns: index and
\* order are empty, Keys() is empty, First() and Last() are nil, Get finds
\* no key, and Set of any key, one present before Init() included, gives a
\* map of that one pair.
C24_InitIsNew ==
    call.op = "Init" =>
        /\ Collect(Map) = New
        /\ DOMAIN items = {} /\ Walk(Map) = <<>> /\ ListLen(order) = 0
        /\ Keys(Map).keys = <<>>
        /\ First(Map).pair = NIL /\ Last(Map).pair = NIL
        /\ \A k \in KeySet : ~Get(Map, k).ok
        /\ \A k \in KeySet, v \in ValSet :
              /\ View(Set(Cur, k, v).o) = View(Set(New, k, v).o)
              /\ View(Set(Cur, k, v).o).entries = << <<k, v>> >>

\* C24 witness: Init() was called on a map of three keys whose first key
\* was the highest one.
C24_Witness ==
    /\ call.op = "Init"
    /\ Len(pre.view.keys) = 3 /\ pre.view.keys[1] = 3
    /\ Now.keys = <<>>

\* The pairs of o as <<Key, Value>>, read off the list from the front.
WalkEntries(o) ==
    [j \in 1..Len(Walk(o)) |-> <<o.pairs[Walk(o)[j]].Key, o.pairs[Walk(o)[j]].Value>>]

\* The last call was Equal on two maps, neither pointer nil.
EqualOnMaps == call.op = "Equal" /\ eqargs.x # NIL /\ eqargs.y # NIL

\* C25 (Equal is positionwise): Equal(A, B) on two maps returns true exactly
\* when they have the same number of pairs and at every position the keys
\* are equal and the values are equal; so it is false for different lengths
\* and for the same pairs in another order.
C25_EqualPositionwise ==
    EqualOnMaps =>
        LET a == WalkEntries(Maps[eqargs.x])
            b == WalkEntries(Maps[eqargs.y])
        IN  /\ ~ret.panics
            /\ ret.ok <=>
                  /\ Len(a) = Len(b)
                  /\ \A i \in 1..Len(a) : a[i][1] = b[i][1] /\ a[i][2] = b[i][2]

\* C25 witness: Equal returned false for two maps of two pairs each, the
\* same pairs in opposite orders.
C25_Witness ==
    /\ EqualOnMaps /\ eqargs.x = 1 /\ eqargs.y = 2 /\ ~ret.ok
    /\ Len(WalkEntries(Map)) = 2
    /\ WalkEntries(other) = <<WalkEntries(Map)[2], WalkEntries(Map)[1]>>

\* C26 (Equal ignores construction history): whatever calls built the two
\* maps and whatever their heaps hold, Equal returns true when the pairs
\* read off their lists are the same sequence.
C26_EqualByContent ==
    (EqualOnMaps /\ WalkEntries(Maps[eqargs.x]) = WalkEntries(Maps[eqargs.y])) =>
        ret.ok /\ ~ret.panics

\* C26 witness: Equal returned true for a map of three pairs that calls
\* other than Set have changed and a second map built by Set calls alone.
C26_Witness ==
    /\ EqualOnMaps /\ eqargs.x = 1 /\ eqargs.y = 2 /\ ret.ok
    /\ Len(WalkEntries(Map)) = 3 /\ WalkEntries(Map)[1][1] = 3
    /\ reworked

\* C27 (Equal of two nil pointers): Equal(nil, nil) returns true and does
\* not panic.
C27_EqualBothNil ==
    (call.op = "Equal" /\ eqargs.x = NIL /\ eqargs.y = NIL) =>
        ret.ok /\ ~ret.panics

\* C28 (Equal of nil and a map): Equal with exactly one nil pointer returns
\* false and does not panic, whatever the other map holds.
C28_EqualOneNil ==
    (call.op = "Equal" /\ ((eqargs.x = NIL) # (eqargs.y = NIL))) =>
        ~ret.ok /\ ~ret.panics

\* C28 witness: Equal(m, nil) returned false for an empty map m.
C28_Witness ==
    /\ call.op = "Equal" /\ eqargs.x = 1 /\ eqargs.y = NIL
    /\ Walk(Map) = <<>>
    /\ ~ret.ok /\ ~ret.panics

\* The calls that only read.
ReadOps ==
    {"Get", "GetOrDefault", "First", "Last", "Keys", "Iterator", "Next",
     "Equal", "String", "GoString"}

\* C29 (reads have no effect): a call of Get, GetOrDefault, First, Last,
\* Keys, Iterator(), Iterator.Next, Equal, String or GoString leaves the
\* reachable structure of the map, and with it keys, values and order, as
\* it was, and the second map too; Next changes no iterator but the one it
\* is called on.
C29_ReadsKeepMap ==
    [][call'.op \in ReadOps =>
          /\ Collect(Map)' = Collect(Map)
          /\ other' = other
          /\ call'.op # "Iterator" =>
                /\ Len(iters') = Len(iters)
                /\ Cardinality({i \in 1..Len(iters) : iters'[i] # iters[i]})
                      <= (IF call'.op = "Next" THEN 1 ELSE 0)]_vars

\* C29 witness: Get found a key that is not at the front of a map of three
\* pairs while an iterator stood after the first pair.
C29_Witness ==
    /\ call.op = "Get" /\ ret.ok
    /\ Len(WalkKeys(Map)) = 3 /\ WalkKeys(Map)[1] # call.key
    /\ Len(iters) = 1 /\ Len(seen[1]) = 1 /\ seen[1][1] # NIL

\* The digits of a non-negative integer read back as the integer.
RECURSIVE ParseInt(_)
ParseInt(ds) ==
    LET v == CHOOSE n \in 0..9 :
                 <<"0", "1", "2", "3", "4", "5", "6", "7", "8", "9">>[n + 1]
                     = ds[Len(ds)]
    IN  IF Len(ds) = 1 THEN v ELSE 10 * ParseInt(SubSeq(ds, 1, Len(ds) - 1)) + v

\* The Set calls a GoString text lists, as <<key, value>>, in order.
SetCalls(text) ==
    LET sets == SelectSeq(text, LAMBDA t : t.s = "\tSet(%#v, %#v)")
    IN  [i \in 1..Len(sets) |-> <<ParseInt(sets[i].key), ParseInt(sets[i].value)>>]

\* The map made by calling Set on m for each of the calls, in order.
RECURSIVE Replay(_, _)
Replay(m, calls) ==
    IF calls = <<>> THEN m
    ELSE Replay(Set(Collect(m), calls[1][1], calls[1][2]).o, Tail(calls))

\* C30 (GoString round trip): the text GoString returns for a map M starts
\* with the constructor and lists one Set call per pair, in order, with
\* ".\n" before each; the Set calls replayed on a new map give a map Equal
\* to M; for an empty map the text is the constructor alone.
C30_GoStringRoundTrip ==
    (call.op = "GoString" /\ ret.text[1] = Lit("orderedmap.New[%T,%T]()")) =>
        /\ SetCalls(ret.text) = WalkEntries(Map)
        /\ Len(ret.text) = 1 + 2 * Len(Walk(Map))
        /\ \A i \in 1..Len(Walk(Map)) : ret.text[2 * i] = Lit(".\n")
        /\ Equal(1, 2, <<Replay(New, SetCalls(ret.text)), Map>>) = Returned(TRUE)
        /\ Equal(2, 1, <<Replay(New, SetCalls(ret.text)), Map>>) = Returned(TRUE)
        /\ Walk(Map) = <<>> => ret.text = <<Lit("orderedmap.New[%T,%T]()")>>

\* C30 witness: GoString listed three Set calls, the first for the highest
\* key, which is not how Set calls in key order would have left the map.
C30_Witness ==
    /\ call.op = "GoString" /\ Len(ret.text) = 7
    /\ SetCalls(ret.text)[1][1] = 3
    /\ Len(Walk(Map)) = 3

\* a comes before b in a sequence of <<key, value>> that has both.
Precedes(entries, a, b) == IndexIn(entries, a) < IndexIn(entries, b)

\* The calls that move the pair of call.key.
MoveOps == {"MoveToFront", "MoveToBack", "MoveAfter", "MoveBefore"}

\* C35 (relative order is stable): two keys present before and after a
\* call are in another order after it only if the call is MoveToFront,
\* MoveToBack, MoveAfter or MoveBefore and one of them is the moved key;
\* Set, Remove, InsertAfter, InsertBefore and a move that names them only
\* as the mark leave their order as it was.
C35_RelativeOrder ==
    \A a, b \in pre.view.index \cap Now.index :
        (a # b /\ Precedes(pre.view.entries, a, b) # Precedes(Now.entries, a, b)) =>
            call.op \in MoveOps /\ call.key \in {a, b}

\* C35 witness: MoveAfter(k, m) took k from the front of a map of three
\* keys to its back, past the mark m at the back and the key before it.
C35_Witness ==
    /\ call.op = "MoveAfter" /\ ret.err = NoError
    /\ Len(pre.view.keys) = 3
    /\ pre.view.keys = <<call.key, pre.view.keys[2], call.mark>>
    /\ Now.keys = <<pre.view.keys[2], call.mark, call.key>>

\* C38 (the key == mark branch is dead): on every reachable map, for every
\* key, value and mark, InsertAfter and InsertBefore never return from the
\* key == mark branch; with key == mark present they return from the
\* existing-key check, and the pair that check reports is the pair the
\* key == mark branch would have reported.
C38_SelfBranchDead ==
    \A k \in KeySet, v \in ValSet, m \in KeySet :
        /\ InsertAfter(Cur, k, v, m).by # "self"
        /\ InsertBefore(Cur, k, v, m).by # "self"
        /\ (k = m /\ m \in DOMAIN items) =>
              /\ InsertAfter(Cur, k, v, m).by = "exists"
              /\ InsertBefore(Cur, k, v, m).by = "exists"
              /\ InsertAfter(Cur, k, v, m).err
                    = duplicateValue(pairs[items[m]].Key, pairs[items[m]].Value)
              /\ InsertBefore(Cur, k, v, m).err
                    = duplicateValue(pairs[items[m]].Key, pairs[items[m]].Value)

\* C38 witness: InsertAfter(k, v, k) was called with k present and returned
\* the DuplicateKeyValue error of the existing-key check.
C38_Witness ==
    /\ call.op = "InsertAfter" /\ call.key = call.mark
    /\ call.key \in pre.view.index
    /\ InsertAfter(Cur, call.key, call.value, call.mark).by = "exists"
    /\ ret.err = InsertAfter(Cur, call.key, call.value, call.mark).err

\* The number of Next calls that return a pair before one returns nil, or -1
\* when fuel calls have not returned nil.
RECURSIVE NextCalls(_, _, _, _)
NextCalls(o, it, n, fuel) ==
    LET x == IteratorNext(o, it)
    IN  IF x.pair = NIL THEN n
        ELSE IF fuel = 0 THEN -1
        ELSE NextCalls(o, x.it, n + 1, fuel - 1)

\* The elements met from the front of the list along Element.Next().
RECURSIVE WalkElems(_, _, _, _)
WalkElems(l, e, out, fuel) ==
    IF e = NIL \/ fuel = 0 THEN out
    ELSE WalkElems(l, ElementNext(l, e), Append(out, e), fuel - 1)

\* C31 (walks end): on every reachable map the walk of Next calls made by
\* Keys and Equal returns nil after exactly as many pairs as the map has
\* keys, the walk of String and GoString along Element.Next() meets that
\* many elements, none twice, and then nil, and Keys, Equal, String and
\* GoString return results of the sizes that go with it.
C31_WalksEnd ==
    LET n == Cardinality(DOMAIN items)
        es == WalkElems(order, ListFront(order), <<>>, Cardinality(DOMAIN order.elem))
    IN  /\ NextCalls(Map, Iterator(Map), 0, Cardinality(DOMAIN order.elem)) = n
        /\ Len(es) = n /\ NoDuplicates(es) /\ ListLen(order) = n
        /\ n > 0 => ElementNext(order, es[n]) = NIL
        /\ Len(Keys(Map).keys) = n
        /\ Equal(1, 1, <<Map>>) = Returned(TRUE)
        /\ Len(String(1, <<Map>>)) = (IF n = 0 THEN 2 ELSE 1 + n)
        /\ Len(GoString(1, <<Map>>)) = (IF n = 0 THEN 1 ELSE 2 * n + 1)

\* C31 witness: MoveToBack took the front key of a map of three keys to the
\* back, and the walk of Next calls on the relinked list ends after three.
C31_Witness ==
    /\ call.op = "MoveToBack" /\ ret.err = NoError
    /\ Len(pre.view.keys) = 3 /\ pre.view.keys[1] = call.key
    /\ NextCalls(Map, Iterator(Map), 0, Cardinality(DOMAIN order.elem)) = 3

\* C34 (Iterators are independent cursors): of the Iterators taken from one
\* map that is not changed, each stands at the element its own number of
\* Next calls leads to (nowhere once they outnumber the pairs), each has
\* returned the pairs of the map in order and nil from then on, and any two
\* of them returned the same pair on their j-th call, however their calls
\* were interleaved.
C34_IndependentCursors ==
    LET w == Walk(Map)
        es == WalkElems(order, ListFront(order), <<>>, Cardinality(DOMAIN order.elem))
    IN  /\ \A i \in 1..Len(iters) :
              /\ iters[i].pos = IF Len(seen[i]) < Len(es) THEN es[Len(seen[i]) + 1] ELSE NIL
              /\ \A j \in 1..Len(seen[i]) :
                    (j <= Len(w) => seen[i][j] = w[j]) /\ (j > Len(w) => seen[i][j] = NIL)
        /\ \A i, k \in 1..Len(iters) :
              \A j \in 1..Len(seen[i]) : j <= Len(seen[k]) => seen[i][j] = seen[k][j]

\* C34 witness: of two Iterators of a map of three keys the first is
\* exhausted, and the second has just returned the first pair and stands
\* at the second element.
C34_Witness ==
    /\ call.op = "Next" /\ Len(iters) = 2 /\ Cardinality(DOMAIN items) = 3
    /\ Len(seen[1]) = 4 /\ seen[1][3] # NIL /\ seen[1][4] = NIL /\ iters[1].pos = NIL
    /\ Len(seen[2]) = 1 /\ seen[2][1] = seen[1][1] /\ ret.pair = seen[2][1]
    /\ iters[2].pos # NIL /\ order.elem[iters[2].pos].Value = seen[1][2]

\* The pairs an Iterator returned before its first nil.
Got(i) == SelectSeq(seen[i], LAMBDA p : p # NIL)

\* C36 (an Iterator is a live cursor): while Set calls come between the Next
\* calls, what an Iterator has returned is a run of the pairs of the list
\* from the front, in order, followed by nothing but nil; an Iterator that
\* has not returned the last pair it could reach stands at the pair after
\* the ones it returned, whenever the pairs behind it were appended, and
\* its coming calls return all the pairs from there on; one that returned
\* nil, or was created on an empty map, or returned the pair that was last
\* by then, stands nowhere and returns nil; and the pair a Next call
\* returns holds the value stored last for its key.
C36_LiveCursor ==
    LET w == Walk(Map)
        es == WalkElems(order, ListFront(order), <<>>, Cardinality(DOMAIN order.elem))
    IN  /\ \A i \in 1..Len(iters) :
              LET g == Got(i)
              IN  /\ Len(g) <= Len(w)
                  /\ seen[i] = g \o [j \in 1..(Len(seen[i]) - Len(g)) |-> NIL]
                  /\ \A j \in 1..Len(g) : g[j] = w[j]
                  /\ iters[i].pos = NIL => Len(g) >= born[i]
                  /\ iters[i].pos # NIL =>
                        /\ Len(g) = Len(seen[i]) /\ Len(g) < Len(es)
                        /\ iters[i].pos = es[Len(g) + 1]
                        /\ NextCalls(Map, iters[i], 0, Len(es)) = Len(w) - Len(g)
                  /\ iters[i].pos = NIL => IteratorNext(Map, iters[i]).pair = NIL
                  /\ (born[i] = 0 \/ Len(g) < Len(seen[i])) => iters[i].pos = NIL
        /\ (call.op = "Next" /\ ret.pair # NIL) =>
              pairs[ret.pair].Value = latest[pairs[ret.pair].Key]

\* C36 witness: an Iterator created when the map had one key returned that
\* pair and then the pair appended since, which was the last one by then;
\* a third key came after that, and the Next call just made returned nil
\* although the map has three keys.
C36_Witness ==
    /\ Len(iters) = 1 /\ born = <<1>> /\ Cardinality(DOMAIN items) = 3
    /\ Len(seen[1]) = 3 /\ Len(Got(1)) = 2 /\ seen[1][3] = NIL
    /\ pairs[seen[1][2]].Key = 3 /\ pre.view.keys = <<1, 3>>
    /\ call.op = "Next" /\ ret.pair = NIL

\* The text without its escape sequences and without what stands between
\* the escape sequence colour and the next reset.
RECURSIVE Plain(_, _, _)
Plain(text, colour, inside) ==
    IF text = <<>> THEN <<>>
    ELSE LET c == Head(text)
             rest == Tail(text)
         IN  IF c = Reset THEN Plain(rest, colour, FALSE)
             ELSE IF c = colour THEN Plain(rest, colour, TRUE)
             ELSE IF c \in {Red, Green} THEN Plain(rest, colour, inside)
             ELSE IF inside THEN Plain(rest, colour, inside)
             ELSE <<c>> \o Plain(rest, colour, inside)

\* C32 (Diff reports equality exactly): a Diff call does not panic, returns
\* ("", false) when the strings are equal and a text that is not empty
\* with true when they differ, the empty string included.
C32_DiffDecides ==
    call.op = "Diff" =>
        /\ ~diff.panics
        /\ diff.first = diff.second => (diff.text = <<>> /\ ~diff.ok)
        /\ diff.first # diff.second => (diff.text # <<>> /\ diff.ok)

\* C33 (Diff renders a faithful edit script): of the text a Diff call
\* returned for two different strings, what is left without the escape
\* sequences and the red segments is second, and what is left without the
\* escape sequences and the green segments is first.
C33_DiffFaithful ==
    (call.op = "Diff" /\ ~diff.panics /\ diff.first # diff.second) =>
        /\ Plain(diff.text, Red, FALSE) = diff.second
        /\ Plain(diff.text, Green, FALSE) = diff.first

\* The keys of the pairs met along the list.
WalkKeyList == LET w == Walk(Map) IN [i \in 1..Len(w) |-> pairs[w[i]].Key]

\* C37 (no mutual exclusion of its own): when the callers run every Set
\* under their mutex, the list never holds two pairs for one key, and
\* between the calls the keys along the list are the keys of the index,
\* each pair under its own key and referring to its own element; so a list
\* with two pairs for a key of the index is only met without the mutex.
C37_SerializedCallers ==
    locking =>
        /\ NoDuplicates(WalkKeyList)
        /\ \A t, u \in Goroutines : (procs[t].pc # "idle" /\ procs[u].pc # "idle") => t = u
        /\ \A t \in Goroutines : procs[t].pc # "crashed"
        /\ lock = NIL =>
              /\ Range(WalkKeyList) = DOMAIN items
              /\ ListLen(order) = Cardinality(DOMAIN items)
              /\ \A k \in DOMAIN items :
                    /\ pairs[items[k]].Key = k
                    /\ order.elem[pairs[items[k]].element].Value = items[k]

\* C37 witness: without the mutex two goroutines have each finished one Set
\* for the same key, both found it absent and appended a pair, and the list
\* holds two pairs for the key that the index holds once.
C37_Witness ==
    /\ ~locking
    /\ procs[1].pc = "idle" /\ procs[2].pc = "idle"
    /\ procs[1].calls = 1 /\ procs[2].calls = 1
    /\ procs[1].key = procs[2].key /\ procs[1].pair # procs[2].pair
    /\ WalkKeyList = <<procs[1].key, procs[1].key>>
    /\ DOMAIN items = {procs[1].key}
    /\ ListLen(order) = 2

====
